---- MODULE Spec2Model ----
(***************************************************************************)
(* Worker lifecycle supervisor of src/main.js (startBot, startBedrockBot,  *)
(* handleBotExit, stopBot) over the in-memory document store.              *)
(*                                                                         *)
(* A step of the model is one run of JavaScript between two waits on real  *)
(* I/O (a Telegram API call made with a non-null ctx, the statusBedrock    *)
(* probe, a timer, a child process event).  Awaits on the store helpers    *)
(* settle in the microtask queue of the same turn and are part of the      *)
(* step that issues them; handlers woken by different events do not        *)
(* overlap inside such a run.  Handlers started in one turn (the updates   *)
(* of one getUpdates batch) do take turns at every await: ModelSpec,       *)
(* RemoveSpec and ConfigSpec follow the collection helpers await by await. *)
(* A child process leaves the process table                                *)
(* when its 'exit' event is delivered (until then kill(pid, 0) succeeds).  *)
(* Every target's owner has a record in db.users; notifyOnError keeps the *)
(* value Servers.create gives it (true) except under NoticeSpec, where     *)
(* toggle_notify changes it.                                               *)
(***************************************************************************)
EXTENDS Integers, Sequences, FiniteSets, Bags, TLC

\* ---------------------------------------------------------------- bounds
MaxStarts == 2       \* startBot invocations that may be in flight together
MaxPid == 2          \* child processes the OS hands out during a run
MaxTimers == 1       \* restart timers pending for one target

BedrockIds == {1}    \* targets registered through the wizard (main.js:662)
JavaIds == {2}       \* a record of the kind startBot no longer supports
Ids == BedrockIds \cup JavaIds
AnyId == Ids \cup {3} \* ids a callback may carry; 3 names no record
Pids == 1..MaxPid
Protocols == {1}     \* protocol numbers the admin adds to / deletes from db.versions
Reported == {1, 2}   \* protocol numbers a probe may report (2 is never in the table)
NoPid == 0           \* botPid null / undefined (falsy)
ProbeFail == 0       \* statusBedrock rejects (unreachable host, timeout)

\* ------------------------------------------------- status strings (main.js)
StatusStopped == "stopped"          \* main.js:237, 546, 617
StatusSearching == "searching"      \* main.js:446
StatusUnsupported == "unsupported"  \* main.js:465
StatusStarting == "starting"        \* main.js:472
StatusActive == "active"            \* main.js:507
StatusFailed == "failed"            \* main.js:527

Statuses == {StatusStopped, StatusSearching, StatusUnsupported,
             StatusStarting, StatusActive, StatusFailed}

VARIABLES
  servers,    \* db.servers: sequence of target records
  versions,   \* db.versions: sequence of protocol numbers
  starts,     \* bag of startBot/startBedrockBot invocations waiting on I/O
  procs,      \* per pid: the child process and the target it was spawned for
  restarts,   \* per target: restart timers armed by handleBotExit
  tick,       \* child 'error' event queued with process.nextTick (0 = none)
  ev          \* what the last step was and what it sent out (observation)

vars == <<servers, versions, starts, procs, restarts, tick, ev>>

\* the document store underneath (main.js 13-95)
VARIABLES
  db,           \* db[file]: the collection held in memory
  disk,         \* what the backing file of each collection holds
  writeQueue,   \* the Set writeQueue, in insertion order
  writeTimeout, \* the variable writeTimeout holds a timer (not null)
  timers,       \* flush timers armed with setTimeout and not yet fired/cleared
  flushes,      \* bag of flushDb invocations waiting on fs.writeFile
  phase,        \* "boot", "up", "stopping" (gracefulStop waits), "exited"
  sev           \* what the last store step was (observation)

storeVars == <<db, disk, writeQueue, writeTimeout, timers, flushes, phase,
               sev>>

\* the objects behind one collection (readDb 81-85, writeDb 88-95)
VARIABLES
  cells,        \* the heap: arrays of record addresses, records
  dbRef,        \* address of the array db[name] refers to
  handles,      \* addresses of the arrays readDb has returned to callers
  dirty,        \* the collection's file is in writeQueue
  hev           \* the last heap step

heapVars == <<cells, dbRef, handles, dirty, hev>>

\* the owners' targets as the add-server wizard and the delete buttons see
\* them (main.js 656-890, 1740-1743)
VARIABLES
  reg,          \* db.servers: records with _id, userId, serverName, ip, port
  wiz,          \* wiz[u]: the wizard state of user u's session
  nextId,       \* number of _id values handed out
  rev           \* the last registry step

regVars == <<reg, wiz, nextId, rev>>

\* one worker client process (unnamed/part_000)
VARIABLES
  hasRetried,   \* the flag of line 14
  connects,     \* calls of connect() so far
  wtimers,      \* setTimeout(connect, 5000) timers pending
  clients,      \* the clients createClient has returned, oldest first
  wphase,       \* "loading", "running" or "exited"
  code,         \* the exit status once exited
  wev           \* the last event the process handled

workerVars == <<hasRetried, connects, wtimers, clients, wphase, code, wev>>

\* the collection helpers of Servers and Config (218-300), followed from
\* await to await
VARIABLES
  coll,         \* db.servers as these helpers see it
  calls,        \* helper calls that have read their copy and not yet written
  conf,         \* db.config.requiredChannels
  oev           \* what the helper that finished last reported and wrote

modelVars == <<coll, calls, conf, oev>>

\* the TTL cache of 98-113
VARIABLES
  cache,        \* userCache: key -> entry or NoEntry
  now,          \* Date.now()
  cev           \* the last cache call and what it returned

cacheVars == <<cache, now, cev>>

\* delete_do handlers (1740-1743) between their stopBot and their deleteOne
VARIABLES
  deletes       \* set of <<user, target id>>

\* what the steps of each part leave alone
nonVars == <<storeVars, heapVars, regVars, workerVars, modelVars, cacheVars>>
nonSupervisor == <<nonVars, deletes>>
nonStore ==
  <<vars, heapVars, regVars, workerVars, modelVars, cacheVars, deletes>>
nonHeap ==
  <<vars, storeVars, regVars, workerVars, modelVars, cacheVars, deletes>>
nonReg ==
  <<vars, storeVars, heapVars, workerVars, modelVars, cacheVars, deletes>>
nonWorker ==
  <<vars, storeVars, heapVars, regVars, modelVars, cacheVars, deletes>>
nonModel ==
  <<vars, storeVars, heapVars, regVars, workerVars, cacheVars, deletes>>
nonCache ==
  <<vars, storeVars, heapVars, regVars, workerVars, modelVars, deletes>>

\* ------------------------------------------------------------ store helpers
RECURSIVE FindIndex(_, _, _)
FindIndex(seq, id, i) ==
  IF i > Len(seq) THEN 0
  ELSE IF seq[i]._id = id THEN i ELSE FindIndex(seq, id, i + 1)

FindById(seq, id) ==
  LET i == FindIndex(seq, id, 1) IN IF i = 0 THEN <<>> ELSE <<seq[i]>>

Merge(rec, payload) ==
  [f \in DOMAIN rec \cup DOMAIN payload |->
     IF f \in DOMAIN payload THEN payload[f] ELSE rec[f]]

UpdateOne(seq, id, payload) ==
  LET i == FindIndex(seq, id, 1) IN
  IF i = 0 THEN seq ELSE [seq EXCEPT ![i] = Merge(seq[i], payload)]

NewServer(id, type) ==
  [_id |-> id, userId |-> id, serverType |-> type, status |-> StatusStopped,
   botPid |-> NoPid, notifyOnError |-> TRUE, autoRestart |-> FALSE]

SeqToSet(seq) == {seq[i] : i \in 1..Len(seq)}

GetSupportedVersions(vs) == SeqToSet(vs)

VersionsCreate(vs, p) == IF p \in SeqToSet(vs) THEN vs ELSE Append(vs, p)

VersionsDeleteOne(vs, p) == SelectSeq(vs, LAMBDA v : v # p)

\* the stored status a handler finds ("" = no record)
PreStatus(srvs, id) ==
  IF FindById(srvs, id) = <<>> THEN "" ELSE FindById(srvs, id)[1].status

\* ------------------------------------------------------ OS process helpers
\* process.kill(pid, 0): the process exists
IsAlive(pid) == pid \in Pids /\ procs[pid].st = "alive"

Unborn == {p \in Pids : procs[p].st = "unborn"}

NextPid == CHOOSE p \in Unborn : \A q \in Unborn : p <= q

LiveFor(id) == {p \in Pids : procs[p].id = id /\ IsAlive(p)}

\* ------------------------------------------- invocations waiting on I/O
\* pc "edit1": at the editMessageText of 448, "probe": at statusBedrock 460,
\* "edit2": at the editMessageText of 475.  ver is the table read at 451.
Invocation(pc, id, c, ver) == [pc |-> pc, id |-> id, ctx |-> c, ver |-> ver]

\* every shape an invocation in flight can have: only bedrock targets pass
\* the guards of 419-443, the table is read at 451 and used at 462 only, and
\* the two edits are awaited only when ctx is given
Invocations ==
  {Invocation(pc, id, TRUE, {}) : pc \in {"edit1", "edit2"}, id \in BedrockIds}
    \cup {Invocation("probe", id, c, ver) :
             id \in BedrockIds, c \in BOOLEAN, ver \in SUBSET Protocols}

Waiting(pc) == {x \in BagToSet(starts) : x.pc = pc}

InFlight(id) == {x \in BagToSet(starts) : x.id = id}

\* op: the handler that ran, id: its target, out: what it decided, note: a
\* failure notification was sent to the owner, was: the status a stop found
Ev(op, id, out, note) ==
  [op |-> op, id |-> id, out |-> out, note |-> note, was |-> ""]

\* steps that send nothing out and decide nothing leave no observation
NoEv == Ev("none", 0, "none", FALSE)

Init ==
  /\ servers = <<NewServer(1, "bedrock"), NewServer(2, "java")>>
  /\ versions = <<1>>
  /\ starts = EmptyBag
  /\ procs = [p \in Pids |-> [id |-> 0, st |-> "unborn"]]
  /\ restarts = [i \in Ids |-> 0]
  /\ tick = 0
  /\ ev = NoEv

\* --------------------------------------------------- handleBotExit 536-577
\* The part of handleBotExit that runs before its first wait: the status
\* guard, the update to stopped, the failure notification being sent and the
\* decision to arm the restart timer (taken from the record read at 537).
\* a handler without the status guard of 540-543
ExitHandledNoGuard(srvs, id) == FindById(srvs, id) # <<>>

ExitHandled(srvs, id) ==
  LET found == FindById(srvs, id) IN
  found # <<>> /\ found[1].status = StatusActive

HandleBotExitServers(srvs, id) ==
  IF ExitHandled(srvs, id)
  THEN UpdateOne(srvs, id, [status |-> StatusStopped, botPid |-> NoPid])
  ELSE srvs

\* a handler that notifies whatever notifyOnError says
HandleBotExitNotifiesAlways(srvs, id) == ExitHandled(srvs, id)

\* 550: owner && server.notifyOnError
HandleBotExitNotifies(srvs, id) ==
  ExitHandled(srvs, id) /\ FindById(srvs, id)[1].notifyOnError

\* a handler that never schedules the restart
HandleBotExitNeverRestarts(srvs, id) == FALSE

HandleBotExitRestarts(srvs, id) ==
  ExitHandled(srvs, id) /\ FindById(srvs, id)[1].autoRestart

HandleBotExit(id, opname) ==
  /\ HandleBotExitRestarts(servers, id) => restarts[id] < MaxTimers
  /\ servers' = HandleBotExitServers(servers, id)
  /\ restarts' = IF HandleBotExitRestarts(servers, id)
                 THEN [restarts EXCEPT ![id] = @ + 1] ELSE restarts
  /\ ev' = Ev(opname, id,
              IF ExitHandled(servers, id) THEN "handled" ELSE "ignored",
              HandleBotExitNotifies(servers, id))

\* child.on('exit') 497-500: the process is gone and its listener runs
ChildExit(p) ==
  /\ tick = 0
  /\ IsAlive(p)
  /\ procs' = [procs EXCEPT ![p].st = "gone"]
  /\ HandleBotExit(procs[p].id, "exit")
  /\ UNCHANGED <<versions, starts, tick>>
  /\ UNCHANGED nonSupervisor

\* child.on('error') 502-505 after a failed spawn: queued with nextTick, it
\* runs before any other event of the loop
ChildError ==
  /\ tick # 0
  /\ tick' = 0
  /\ HandleBotExit(tick, "error")
  /\ UNCHANGED <<versions, starts, procs>>
  /\ UNCHANGED nonSupervisor

\* ------------------------------------------------- startBedrockBot 458-534
\* spawn and the update that follows it; o is what spawn does:
\*   "ok"    a child with a pid is created,
\*   "throw" spawn throws and the catch at 525 runs,
\*   "async" spawn returns a child without pid and emits 'error' later.
SpawnOutcomes == {"ok", "throw", "async"}

SpawnServers(srvs, id, o, p) ==
  IF o = "ok" THEN UpdateOne(srvs, id, [status |-> StatusActive, botPid |-> p])
  ELSE IF o = "async"
  THEN UpdateOne(srvs, id, [status |-> StatusActive, botPid |-> NoPid])
  ELSE UpdateOne(srvs, id, [status |-> StatusFailed, botPid |-> NoPid])

SpawnStep(srvs, x, o) ==
  /\ o = "ok" => Unborn # {}
  /\ servers' = SpawnServers(srvs, x.id, o,
                             IF o = "ok" THEN NextPid ELSE NoPid)
  /\ procs' = IF o = "ok"
              THEN [procs EXCEPT ![NextPid] = [id |-> x.id, st |-> "alive"]]
              ELSE procs
  /\ tick' = IF o = "async" THEN x.id ELSE 0
  /\ starts' = starts (-) SetToBag({x})
  /\ ev' = Ev("spawn", x.id, o, FALSE)

\* resumes after the editMessageText of 475 (ctx given)
Spawn(x, o) ==
  /\ tick = 0
  /\ x \in Waiting("edit2")
  /\ SpawnStep(servers, x, o)
  /\ UNCHANGED <<versions, restarts>>
  /\ UNCHANGED nonSupervisor

\* versions.bedrock[protocolVersion] is a release name (462-464)
\* a lookup that accepts every reported protocol
SupportedAny(ver, r) == TRUE

Supported(ver, r) == r \in ver

\* statusBedrock settles (460): r is ProbeFail (reject / timeout) or the
\* protocol number reported; o is what spawn does when it follows in the same
\* step (ctx null: no wait between 472 and 479)
ProbeReturn(x, r, o) ==
  /\ tick = 0
  /\ x \in Waiting("probe")
  /\ IF r = ProbeFail
     THEN /\ o = "throw"
          /\ servers' = UpdateOne(servers, x.id,
                          [status |-> StatusFailed, botPid |-> NoPid])
          /\ starts' = starts (-) SetToBag({x})
          /\ ev' = Ev("probe", x.id, "probefail", FALSE)
          /\ UNCHANGED <<procs, tick>>
     ELSE IF ~Supported(x.ver, r)
     THEN /\ o = "throw"
          /\ servers' = UpdateOne(servers, x.id, [status |-> StatusUnsupported])
          /\ starts' = starts (-) SetToBag({x})
          /\ ev' = Ev("probe", x.id, "unsupported", FALSE)
          /\ UNCHANGED <<procs, tick>>
     ELSE IF x.ctx
     THEN /\ o = "throw"
          /\ servers' = UpdateOne(servers, x.id, [status |-> StatusStarting])
          /\ starts' = (starts (-) SetToBag({x}))
                         (+) SetToBag({Invocation("edit2", x.id, TRUE, {})})
          /\ ev' = Ev("probe", x.id, "starting", FALSE)
          /\ UNCHANGED <<procs, tick>>
     ELSE SpawnStep(UpdateOne(servers, x.id, [status |-> StatusStarting]),
                    x, o)
  /\ UNCHANGED <<versions, restarts>>
  /\ UNCHANGED nonSupervisor

\* --------------------------------------------------------- startBot 417-456
\* a guard chain without the serverType check of 425
StartOutcomeAnyKind(srvs, id) ==
  LET found == FindById(srvs, id) IN
  IF found = <<>> THEN "notfound"
  ELSE IF found[1].botPid # NoPid /\ IsAlive(found[1].botPid) THEN "already"
  ELSE "accepted"

\* a guard chain that rejects on any recorded pid, without process.kill(pid, 0)
StartOutcomeUnprobed(srvs, id) ==
  LET found == FindById(srvs, id) IN
  IF found = <<>> THEN "notfound"
  ELSE IF found[1].serverType = "java" THEN "java"
  ELSE IF found[1].botPid # NoPid THEN "already"
  ELSE "accepted"

StartOutcome(srvs, id) ==
  LET found == FindById(srvs, id) IN
  IF found = <<>> THEN "notfound"
  ELSE IF found[1].serverType = "java" THEN "java"
  ELSE IF found[1].botPid # NoPid /\ IsAlive(found[1].botPid) THEN "already"
  ELSE "accepted"

\* the files startBot hands to writeDb before its first wait: the early
\* returns of 419-438 only read (findById), Servers.updateOne at 446 writes
StartBotWrites(srvs, id) ==
  IF StartOutcome(srvs, id) = "accepted" THEN {"servers.json"} ELSE {}

\* up to the first wait: the editMessageText of 448 when ctx is given,
\* otherwise statusBedrock (460), the versions table being read on the way
StartBot(id, c) ==
  LET out == StartOutcome(servers, id) IN
  /\ BagCardinality(starts) < MaxStarts
  /\ servers' = IF out = "accepted"
                THEN UpdateOne(servers, id, [status |-> StatusSearching])
                ELSE servers
  /\ starts' = IF out # "accepted" THEN starts
               ELSE IF c
               THEN starts (+) SetToBag({Invocation("edit1", id, TRUE, {})})
               ELSE starts (+) SetToBag({Invocation("probe", id, FALSE,
                                           GetSupportedVersions(versions))})
  /\ ev' = Ev(IF c THEN "start" ELSE "restart", id, out, FALSE)

\* bot.action start_bot 1708
UserStart(id) ==
  /\ tick = 0
  /\ StartBot(id, TRUE)
  /\ UNCHANGED <<versions, procs, restarts, tick>>
  /\ UNCHANGED nonSupervisor

\* the timer armed at 569 fires: startBot(null, serverId)
TimerFire(id) ==
  /\ tick = 0
  /\ restarts[id] > 0
  /\ restarts' = [restarts EXCEPT ![id] = @ - 1]
  /\ StartBot(id, FALSE)
  /\ UNCHANGED <<versions, procs, tick>>
  /\ UNCHANGED nonSupervisor

\* resumes after the editMessageText of 448 (ctx given): 451-460
StartEdited(x) ==
  /\ tick = 0
  /\ x \in Waiting("edit1")
  /\ starts' = (starts (-) SetToBag({x}))
                 (+) SetToBag({Invocation("probe", x.id, TRUE,
                                          GetSupportedVersions(versions))})
  /\ ev' = NoEv
  /\ UNCHANGED <<servers, versions, procs, restarts, tick>>
  /\ UNCHANGED nonSupervisor

\* ---------------------------------------------------------- stopBot 599-623
\* a stop that forgets to clear the process id
StopBotServersKeepPid(srvs, id) ==
  UpdateOne(srvs, id, [status |-> StatusStopped, autoRestart |-> FALSE])

\* a stop that forgets to clear autoRestart
StopBotServersKeepAuto(srvs, id) ==
  UpdateOne(srvs, id, [status |-> StatusStopped, botPid |-> NoPid])

StopBotServers(srvs, id) ==
  UpdateOne(srvs, id,
            [status |-> StatusStopped, autoRestart |-> FALSE, botPid |-> NoPid])

\* process.kill(server.botPid, 'SIGTERM') 608-615: delivered when the process
\* exists, the failure swallowed when it does not.  The client exits on the
\* signal (ChildExit); the supervisor does not wait for that.
StopBotSignals(srvs, id) ==
  LET found == FindById(srvs, id) IN
  IF found # <<>> /\ found[1].botPid # NoPid /\ IsAlive(found[1].botPid)
  THEN {found[1].botPid} ELSE {}

StopBot(id) ==
  LET found == FindById(servers, id) IN
  /\ tick = 0
  /\ servers' = IF found = <<>> THEN servers ELSE StopBotServers(servers, id)
  /\ ev' = [Ev("stop", id,
                 IF found = <<>> THEN "notfound"
                 ELSE IF StopBotSignals(servers, id) # {} THEN "signalled"
                 ELSE "stopped", FALSE)
              EXCEPT !.was = PreStatus(servers, id)]
  /\ UNCHANGED <<versions, starts, procs, restarts, tick>>
  /\ UNCHANGED nonSupervisor

\* ------------------------------------------------------- toggle 1710
ToggleAutoRestart(id) ==
  LET found == FindById(servers, id) IN
  /\ tick = 0
  /\ found # <<>>
  /\ servers' = UpdateOne(servers, id, [autoRestart |-> ~found[1].autoRestart])
  /\ ev' = NoEv
  /\ UNCHANGED <<versions, starts, procs, restarts, tick>>
  /\ UNCHANGED nonSupervisor

\* ------------------------------------------------- toggle_notify 1711
ToggleNotify(id) ==
  LET found == FindById(servers, id) IN
  /\ tick = 0
  /\ found # <<>>
  /\ servers' = UpdateOne(servers, id,
                          [notifyOnError |-> ~found[1].notifyOnError])
  /\ ev' = NoEv
  /\ UNCHANGED <<versions, starts, procs, restarts, tick>>
  /\ UNCHANGED nonSupervisor

\* ------------------------------------------------ versions table 308-329
AdminAddVersion(p) ==
  /\ tick = 0
  /\ versions' = VersionsCreate(versions, p)
  /\ versions' # versions
  /\ ev' = NoEv
  /\ UNCHANGED <<servers, starts, procs, restarts, tick>>
  /\ UNCHANGED nonSupervisor

AdminDeleteVersion(p) ==
  /\ tick = 0
  /\ versions' = VersionsDeleteOne(versions, p)
  /\ versions' # versions
  /\ ev' = NoEv
  /\ UNCHANGED <<servers, starts, procs, restarts, tick>>
  /\ UNCHANGED nonSupervisor

\* ====================================================================
\* Debounced document store (main.js 13-95) and shutdown (2029-2037)
\* ====================================================================
MaxFlushes == 2      \* flushDb invocations that may be in flight together

Files == {"config.json", "users.json", "servers.json", "versions.json"}

\* a collection: a JSON array or object with its entries
Arr(items) == [kind |-> "array", items |-> items]
Obj(items) == [kind |-> "object", items |-> items]

\* backing file states: parseable content, no file (ENOENT), content that is
\* not JSON (SyntaxError), a file that cannot be read (EACCES, EISDIR, ...)
OnDisk(c) == [st |-> "ok", data |-> c]
Missing == [st |-> "missing", data |-> Arr(<<>>)]
Corrupt == [st |-> "corrupt", data |-> Arr(<<>>)]
Unreadable == [st |-> "unreadable", data |-> Arr(<<>>)]

SEv(op, file, out) == [op |-> op, file |-> file, out |-> out]
NoSEv == SEv("none", "", "")

\* default values handed to readWithDefault (41-44)
DefaultValue(file) == IF file = "config.json" THEN Obj(<<>>) ELSE Arr(<<>>)

\* readDb 81-85: JSON.parse(JSON.stringify(db[name])), a copy with the same
\* entries (the entries of the model are numbers, which JSON keeps)
ReadDb(d, file) == d[file]

\* the collections a run left behind: botOnline true in config (357), the
\* admin in users (350), no target, one supported version
Steady ==
  [f \in Files |->
     IF f = "config.json" THEN Obj(<<1>>)
     ELSE IF f = "users.json" THEN Arr(<<1>>)
     ELSE IF f = "versions.json" THEN Arr(<<1>>)
     ELSE Arr(<<>>)]

\* the store as seen by a specification that does not exercise it
StoreIdle ==
  /\ db = Steady
  /\ disk = [f \in Files |-> OnDisk(Steady[f])]
  /\ writeQueue = <<>>
  /\ writeTimeout = FALSE
  /\ timers = 0
  /\ flushes = EmptyBag
  /\ phase = "up"
  /\ sev = NoSEv

\* ------------------------------------------------------------ writeDb 88-95
\* a writeDb that arms a timer without clearing the one it holds
ArmKeepingOld(held, n) == n + 1

\* 93-94: clearTimeout on the held timer, then setTimeout
Arm(held, n) == IF held THEN n ELSE n + 1

Enqueue(q, file) == IF file \in SeqToSet(q) THEN q ELSE Append(q, file)

\* a flushDb invocation under way notes the files of its list that are
\* written in memory after it took them from writeQueue (history)
Overtaken(x, file) ==
  IF file \in SeqToSet(x.files) THEN [x EXCEPT !.touched = @ \cup {file}]
  ELSE x

WriteDb(file, data) ==
  /\ db' = [db EXCEPT ![file] = data]
  /\ writeQueue' = Enqueue(writeQueue, file)
  /\ timers' = Arm(writeTimeout, timers)
  /\ writeTimeout' = TRUE
  /\ flushes' = BagOfAll(LAMBDA x : Overtaken(x, file), flushes)
  /\ UNCHANGED <<disk, phase>>

\* ------------------------------------------------------- collection calls
\* Versions.create 311: some record already has the protocol number
\* a check that never finds a duplicate
DuplicateKeyNever(vs, p) == FALSE

DuplicateKey(vs, p) == p \in SeqToSet(vs)

\* Versions.create 308-319: the duplicate-key error (code 11000) is thrown
\* before anything is written
VersionsCreateCall(p) ==
  LET vs == ReadDb(db, "versions.json").items IN
  /\ phase \in {"up", "stopping"}
  /\ IF DuplicateKey(vs, p)
     THEN /\ sev' = SEv("create", "versions.json", "11000")
          /\ UNCHANGED <<db, disk, writeQueue, writeTimeout, timers, flushes,
                         phase>>
     ELSE /\ WriteDb("versions.json", Arr(Append(vs, p)))
          /\ sev' = SEv("create", "versions.json", "created")
  /\ UNCHANGED nonStore

\* Versions.deleteOne 320-329
VersionsDeleteCall(p) ==
  LET vs == ReadDb(db, "versions.json").items IN
  /\ phase \in {"up", "stopping"}
  /\ IF Len(VersionsDeleteOne(vs, p)) < Len(vs)
     THEN /\ WriteDb("versions.json", Arr(VersionsDeleteOne(vs, p)))
          /\ sev' = SEv("delete", "versions.json", "1")
     ELSE /\ sev' = SEv("delete", "versions.json", "0")
          /\ UNCHANGED <<db, disk, writeQueue, writeTimeout, timers, flushes,
                         phase>>
  /\ UNCHANGED nonStore

\* the admin's bot on/off switch 1999-2002: config.botOnline = !current
ToggleBotOnline ==
  LET items == ReadDb(db, "config.json").items
      current == IF items = <<>> THEN 1 ELSE items[1] IN
  /\ phase \in {"up", "stopping"}
  /\ WriteDb("config.json", Obj(<<1 - current>>))
  /\ sev' = SEv("write", "config.json", "")
  /\ UNCHANGED nonStore

\* ------------------------------------------------------------ flushDb 52-78
\* 53-61 and the first pass of the loop up to its fs.writeFile: n is the
\* number of timers still armed when flushDb is entered
FlushDbStart(by, n) ==
  /\ timers' = n
  /\ writeTimeout' = FALSE
  /\ IF writeQueue = <<>>
     THEN UNCHANGED <<writeQueue, flushes>>
     ELSE /\ BagCardinality(flushes) < MaxFlushes
          /\ writeQueue' = <<>>
          /\ flushes' = flushes (+) SetToBag({[files |-> writeQueue,
                                              data |-> db[Head(writeQueue)],
                                              touched |-> {}, by |-> by]})

\* the timer armed at 94 fires; clearTimeout (54) on it is without effect
FlushTimer ==
  /\ phase \in {"up", "stopping"}
  /\ timers > 0
  /\ FlushDbStart("timer", timers - 1)
  /\ sev' = SEv("flush", "", "timer")
  /\ UNCHANGED <<db, disk, phase>>
  /\ UNCHANGED nonStore

\* process.exit while fs.writeFile calls are outstanding: each of their
\* files keeps its content, has the new content, or is left truncated
InFlightFor(fl, f) == {x \in BagToSet(fl) : Head(x.files) = f}

Cands(d, fl, f) ==
  IF InFlightFor(fl, f) = {} THEN {d[f]}
  ELSE {d[f], Corrupt} \cup {OnDisk(x.data) : x \in InFlightFor(fl, f)}

Exit(d, fl) ==
  /\ phase' = "exited"
  /\ flushes' = EmptyBag
  /\ \E cc \in Cands(d, fl, "config.json"), cu \in Cands(d, fl, "users.json"),
        cs \in Cands(d, fl, "servers.json"),
        cv \in Cands(d, fl, "versions.json") :
       disk' = [f \in Files |->
                  IF f = "config.json" THEN cc
                  ELSE IF f = "users.json" THEN cu
                  ELSE IF f = "servers.json" THEN cs ELSE cv]

\* fs.writeFile outcomes (68-73)
WriteOutcomes == {"ok", "fail"}

\* a catch block that does not put the file back
RequeueNever(q, file, o) == q

\* 69-73: the catch block puts the file back into writeQueue
Requeue(q, file, o) == IF o = "ok" THEN q ELSE Enqueue(q, file)

\* fs.writeFile of an invocation settles (68): on failure the file goes back
\* to writeQueue (72); then the loop takes the next file, reading db at that
\* moment (64), or flushDb returns; the one awaited by gracefulStop is
\* followed by process.exit (2033)
WriteFileDone(x, o) ==
  LET file == Head(x.files)
      rest == Tail(x.files)
      left == flushes (-) SetToBag({x})
      written == IF o = "ok" THEN [disk EXCEPT ![file] = OnDisk(x.data)]
                 ELSE disk IN
  /\ phase \in {"up", "stopping"}
  /\ x \in BagToSet(flushes)
  /\ writeQueue' = Requeue(writeQueue, file, o)
  /\ sev' = SEv("written", file, o)
  /\ IF rest # <<>>
     THEN /\ flushes' = left (+) SetToBag({[files |-> rest,
                                           data |-> db[Head(rest)],
                                           touched |-> x.touched \cap SeqToSet(rest),
                                           by |-> x.by]})
          /\ disk' = written
          /\ phase' = phase
     ELSE IF x.by = "stop"
     THEN Exit(written, left)
     ELSE /\ flushes' = left
          /\ disk' = written
          /\ phase' = phase
  /\ UNCHANGED <<db, writeTimeout, timers>>
  /\ UNCHANGED nonStore

\* gracefulStop 2029-2034 on SIGINT / SIGTERM: flushDb, then process.exit(0)
GracefulStop ==
  /\ phase = "up"
  /\ sev' = SEv("signal", "", IF writeQueue = <<>> THEN "exit" ELSE "flush")
  /\ IF writeQueue = <<>>
     THEN /\ timers' = IF writeTimeout THEN timers - 1 ELSE timers
          /\ writeTimeout' = FALSE
          /\ writeQueue' = writeQueue
          /\ Exit(disk, flushes)
     ELSE /\ FlushDbStart("stop", IF writeTimeout THEN timers - 1 ELSE timers)
          /\ phase' = "stopping"
          /\ disk' = disk
  /\ db' = db
  /\ UNCHANGED nonStore

\* ------------------------------------------------------------- loadDb 24-50
LoadOrder == <<"config.json", "users.json", "servers.json", "versions.json">>

\* the literals of 14-19
Empty == [f \in Files |-> DefaultValue(f)]

\* readWithDefault 28-39: ENOENT and SyntaxError give the default, any other
\* error is thrown on (37)
\* a reader that never throws
ReadNeverThrows(ds) == FALSE

ReadThrows(ds) == ds.st = "unreadable"

ReadWithDefault(ds, file) ==
  IF ds.st = "ok" THEN ds.data ELSE DefaultValue(file)

\* position in LoadOrder of the first file whose read throws (0: none)
RECURSIVE FirstThrow(_, _)
FirstThrow(d, i) ==
  IF i > Len(LoadOrder) THEN 0
  ELSE IF ReadThrows(d[LoadOrder[i]]) THEN i ELSE FirstThrow(d, i + 1)

Position(file) == CHOOSE i \in 1..Len(LoadOrder) : LoadOrder[i] = file

\* mk: fs.mkdir(dataDir) succeeds (26)
LoadDb(mk) ==
  LET k == IF mk THEN FirstThrow(disk, 1) ELSE 1 IN
  /\ phase = "boot"
  /\ db' = [f \in Files |->
              IF mk /\ (k = 0 \/ Position(f) < k)
              THEN ReadWithDefault(disk[f], f) ELSE db[f]]
  /\ phase' = IF mk /\ k = 0 THEN "up" ELSE "exited"
  /\ sev' = SEv("load", "", IF mk /\ k = 0 THEN "up" ELSE "exit 1")
  /\ UNCHANGED <<disk, writeQueue, writeTimeout, timers, flushes>>
  /\ UNCHANGED nonStore

\* ------------------------------- object identity in readDb / writeDb 81-95
MaxCells == 5        \* objects of the collection and its copies alive together

Addrs == 1..MaxCells
Vals == 0..1

FreeCell == [kind |-> "free", items |-> <<>>, val |-> 0]
ArrCell(items) == [kind |-> "array", items |-> items, val |-> 0]
RecCell(v) == [kind |-> "record", items |-> <<>>, val |-> v]

HEv(op, h) == [op |-> op, h |-> h]

FreeAddrs(c) == {a \in Addrs : c[a].kind = "free"}

Min(S) == CHOOSE a \in S : \A b \in S : a <= b

\* the n lowest addresses of S, in order
RECURSIVE Lowest(_, _)
Lowest(S, n) ==
  IF n = 0 THEN <<>> ELSE <<Min(S)>> \o Lowest(S \ {Min(S)}, n - 1)

\* the objects an array and its records occupy
Tree(c, a) == {a} \cup SeqToSet(c[a].items)

\* what JSON.stringify gives for the array at a: its records' contents
Value(c, a) == [i \in 1..Len(c[a].items) |-> c[c[a].items[i]].val]

\* objects no variable leads to any more are collected
Sweep(c, roots) ==
  [a \in Addrs |->
     IF a \in UNION {Tree(c, r) : r \in roots} THEN c[a] ELSE FreeCell]

\* a copy of the array alone ([...db[name]]): the records are shared
ShallowCopy(c, root, new) ==
  [c EXCEPT ![new[1]] = ArrCell(c[root].items)]

\* readDb 84, JSON.parse(JSON.stringify(db[name])): a new array of new
\* records with the same contents; new[1] is the array
DeepCopy(c, root, new) ==
  [a \in Addrs |->
     IF a = new[1] THEN ArrCell(Tail(new))
     ELSE IF \E i \in 2..Len(new) : new[i] = a
     THEN RecCell(c[c[root].items[(CHOOSE i \in 2..Len(new) : new[i] = a) - 1]].val)
     ELSE c[a]]

HeapInit ==
  /\ cells = [a \in Addrs |->
               IF a = 1 THEN ArrCell(<<2>>)
               ELSE IF a = 2 THEN RecCell(0) ELSE FreeCell]
  /\ dbRef = 1
  /\ handles = {}
  /\ dirty = FALSE
  /\ hev = HEv("none", 0)

\* readDb 81-85 hands the copy to its caller
HeapReadDb ==
  LET n == Len(cells[dbRef].items) + 1 IN
  /\ Cardinality(FreeAddrs(cells)) >= n
  /\ LET new == Lowest(FreeAddrs(cells), n) IN
       /\ cells' = DeepCopy(cells, dbRef, new)
       /\ handles' = handles \cup {new[1]}
       /\ hev' = HEv("read", new[1])
  /\ UNCHANGED <<dbRef, dirty>>
  /\ UNCHANGED nonHeap

\* a caller assigns to a field of record i of an array it holds, e.g.
\* servers[0].status = ... ; no writeDb
MutateField(h, i, v) ==
  /\ h \in handles
  /\ i \in 1..Len(cells[h].items)
  /\ cells[cells[h].items[i]].val # v
  /\ cells' = [cells EXCEPT ![cells[h].items[i]] = RecCell(v)]
  /\ hev' = HEv("mutate", h)
  /\ UNCHANGED <<dbRef, handles, dirty>>
  /\ UNCHANGED nonHeap

\* a caller pushes a new record onto an array it holds (servers.push, 242);
\* no writeDb
PushRecord(h, v) ==
  /\ h \in handles
  /\ FreeAddrs(cells) # {}
  /\ Len(cells[h].items) < 2
  /\ LET a == Min(FreeAddrs(cells)) IN
       cells' = [cells EXCEPT ![a] = RecCell(v),
                              ![h] = ArrCell(Append(cells[h].items, a))]
  /\ hev' = HEv("push", h)
  /\ UNCHANGED <<dbRef, handles, dirty>>
  /\ UNCHANGED nonHeap

\* writeDb 88-91: db[name] = data keeps the caller's object, the file is
\* dirty; the object db[name] referred to before is let go
HeapWriteDb(h) ==
  /\ h \in handles
  /\ dbRef' = h
  /\ dirty' = TRUE
  /\ cells' = Sweep(cells, {h} \cup handles)
  /\ hev' = HEv("write", h)
  /\ UNCHANGED handles
  /\ UNCHANGED nonHeap

\* the caller returns; its array is collected unless db[name] refers to it
Forget(h) ==
  /\ h \in handles
  /\ handles' = handles \ {h}
  /\ cells' = Sweep(cells, {dbRef} \cup handles')
  /\ hev' = HEv("forget", h)
  /\ UNCHANGED <<dbRef, dirty>>
  /\ UNCHANGED nonHeap

\* flushDb 60 has taken the file from writeQueue
HeapFlushDb ==
  /\ dirty
  /\ dirty' = FALSE
  /\ hev' = HEv("flush", 0)
  /\ UNCHANGED <<cells, dbRef, handles>>
  /\ UNCHANGED nonHeap

HeapNext ==
  \/ HeapReadDb
  \/ \E h \in Addrs, i \in 1..2, v \in Vals : MutateField(h, i, v)
  \/ \E h \in Addrs, v \in Vals : PushRecord(h, v)
  \/ \E h \in Addrs : HeapWriteDb(h)
  \/ \E h \in Addrs : Forget(h)
  \/ HeapFlushDb

\* ----------------------------- add-server wizard and deletion 656-890, 1740
MaxIds == 4          \* _id values handed out during a run

Owners == {1, 2}
Hosts == {"a.example", "b.example"}
ValidPorts == {1, 2}
PortInputs == ValidPorts \cup {0}      \* 0: not a number or out of 1..65535
MaxPerOwner == 3                       \* 824, 1657

RegServer(id, u, name, ip, port) ==
  [id |-> id, userId |-> u, serverName |-> name, ip |-> ip, port |-> port]

REv(op, u, id, out) == [op |-> op, user |-> u, id |-> id, out |-> out]

\* the last completed port step or deletion; other steps leave no trace
NoREv == REv("none", 0, 0, "")

NoWizard == [step |-> "none", ip |-> ""]

\* Servers.find({ userId }) 220-224
Mine(srvs, u) == SelectSeq(srvs, LAMBDA r : r.userId = u)

\* 665-681: the number after the highest S-n of the user's targets. The
\* wizard picks it when it is entered and hands it to Servers.create (862);
\* reorderServers (869) replaces it in the same step, so the wizard state of
\* the model keeps no copy and the port step works it out
NewNumber(srvs, u) ==
  LET taken == {Mine(srvs, u)[i].serverName : i \in 1..Len(Mine(srvs, u))} IN
  IF taken = {} THEN 1
  ELSE (CHOOSE n \in taken : \A m \in taken : m <= n) + 1

\* a count that sees no target
ServerCountNone(srvs, u) == 0

\* 823, 1655: Servers.countDocuments({ userId })
ServerCount(srvs, u) == Len(Mine(srvs, u))

\* a check that finds no record of another user
DuplicateOtherNever(srvs, ip, port) == FALSE


\* 831-835: Servers.findOne({ ip, port, userId })
DuplicateOwn(srvs, u, ip, port) ==
  \E i \in 1..Len(srvs) :
    srvs[i].ip = ip /\ srvs[i].port = port /\ srvs[i].userId = u

\* 842-845: Servers.findOne({ ip, port })
DuplicateOther(srvs, ip, port) ==
  \E i \in 1..Len(srvs) : srvs[i].ip = ip /\ srvs[i].port = port

\* a reorderServers that renames nothing
ReorderNothing(srvs, u) == srvs

\* reorderServers 387-406: no record has createdAt (232-245, 860-866), so the
\* comparator gives 0 and the stable sort keeps the stored order; the k-th
\* of the user's targets gets the name S-k (the model keeps k)
RECURSIVE Renumber(_, _, _)
Renumber(srvs, u, expected) ==
  IF srvs = <<>> THEN <<>>
  ELSE IF Head(srvs).userId = u
  THEN <<[Head(srvs) EXCEPT !.serverName = expected]>>
         \o Renumber(Tail(srvs), u, expected + 1)
  ELSE <<Head(srvs)>> \o Renumber(Tail(srvs), u, expected)

ReorderServers(srvs, u) == Renumber(srvs, u, 1)

\* Servers.deleteOne({ _id, userId }) 256-265
RegDeleteOne(srvs, id, u) ==
  SelectSeq(srvs, LAMBDA r : ~(r.id = id /\ r.userId = u))

RegInit ==
  /\ reg = <<>>
  /\ wiz = [u \in Owners |-> NoWizard]
  /\ nextId = 0
  /\ rev = NoREv

\* add_server_wizard 1653-1664 and the first step 658-697: a user with three
\* targets gets an alert and the scene is not entered
WizardEnter(u) ==
  /\ wiz[u].step = "none"
  /\ ServerCount(reg, u) < MaxPerOwner
  /\ wiz' = [wiz EXCEPT ![u] = [step |-> "ip", ip |-> ""]]
  /\ rev' = NoREv
  /\ UNCHANGED <<reg, nextId>>
  /\ UNCHANGED nonReg

\* the IP step 789-803
WizardIp(u, h) ==
  /\ wiz[u].step = "ip"
  /\ wiz' = [wiz EXCEPT ![u].step = "port", ![u].ip = h]
  /\ rev' = NoREv
  /\ UNCHANGED <<reg, nextId>>
  /\ UNCHANGED nonReg

\* cancel_wizard 892-899
WizardCancel(u) ==
  /\ wiz[u].step \in {"ip", "port"}
  /\ wiz' = [wiz EXCEPT ![u] = NoWizard]
  /\ rev' = NoREv
  /\ UNCHANGED <<reg, nextId>>
  /\ UNCHANGED nonReg

\* the port step 805-890 from its last Telegram call (818-819) on: limit,
\* the two duplicate checks, Servers.create, reorderServers, scene.leave.
\* more: another message sent to this step is still waiting at 818-819; it
\* resumes with the same wizard state, so the step stays open for it
WizardPort(u, p, more) ==
  LET after == IF more THEN wiz ELSE [wiz EXCEPT ![u] = NoWizard] IN
  /\ wiz[u].step = "port"
  /\ IF p \notin ValidPorts
     THEN /\ rev' = NoREv
          /\ UNCHANGED <<reg, wiz, nextId>>
     ELSE IF ServerCount(reg, u) >= MaxPerOwner
     THEN /\ rev' = REv("port", u, 0, "limit")
          /\ wiz' = after
          /\ UNCHANGED <<reg, nextId>>
     ELSE IF DuplicateOwn(reg, u, wiz[u].ip, p)
     THEN /\ rev' = REv("port", u, 0, "own")
          /\ wiz' = after
          /\ UNCHANGED <<reg, nextId>>
     ELSE IF DuplicateOther(reg, wiz[u].ip, p)
     THEN /\ rev' = REv("port", u, 0, "other")
          /\ wiz' = after
          /\ UNCHANGED <<reg, nextId>>
     ELSE /\ nextId < MaxIds
          /\ nextId' = nextId + 1
          /\ reg' = ReorderServers(
                      Append(reg, RegServer(nextId + 1, u, NewNumber(reg, u),
                                            wiz[u].ip, p)), u)
          /\ wiz' = after
          /\ rev' = REv("port", u, 0, "created")
  /\ UNCHANGED nonReg

\* delete_do 1740-1743 after its answerCbQuery and stopBot, on the button of
\* a target of the user: Servers.deleteOne, reorderServers (a second click
\* on the same button deletes nothing and is left out)
DeleteDo(u, id) ==
  /\ \E i \in 1..Len(reg) : reg[i].id = id /\ reg[i].userId = u
  /\ reg' = ReorderServers(RegDeleteOne(reg, id, u), u)
  /\ rev' = REv("delete", u, 0, "1")
  /\ UNCHANGED <<wiz, nextId>>
  /\ UNCHANGED nonReg

RegNext ==
  \/ \E u \in Owners : WizardEnter(u)
  \/ \E u \in Owners, h \in Hosts : WizardIp(u, h)
  \/ \E u \in Owners : WizardCancel(u)
  \/ \E u \in Owners, p \in PortInputs, more \in BOOLEAN :
       WizardPort(u, p, more)
  \/ \E u \in Owners, id \in 1..MaxIds : DeleteDo(u, id)

\* ----------------------------------------- worker client unnamed/part_000
MaxConnects == 3     \* connect() calls the model follows

\* the reason text of a disconnect packet: the words in it, and whether it
\* is written in capitals
Reasons == [words : SUBSET {"kick", "ban", "closed"}, upper : BOOLEAN]

NoReason == [words |-> {}, upper |-> FALSE]

\* 36: toLowerCase; 37: includes, which tells capitals from small letters
ToLowerCase(reason) == [reason EXCEPT !.upper = FALSE]
Includes(reason, word) == ~reason.upper /\ word \in reason.words

WEv(op, client, reason) == [op |-> op, client |-> client, reason |-> reason]

\* a classification that takes every disconnect for a kick
IsKickAlways(reason) == TRUE

\* 37: reason.includes('kick') || reason.includes('ban')
IsKick(reason) ==
  \/ Includes(ToLowerCase(reason), "kick")
  \/ Includes(ToLowerCase(reason), "ban")

\* a test that lets every failure retry
MayRetryAlways(h) == TRUE

\* 39, 53, 66: !hasRetried
MayRetry(h) == ~h

WorkerInit ==
  /\ hasRetried = FALSE
  /\ connects = 0
  /\ wtimers = 0
  /\ clients = <<>>
  /\ wphase = "loading"
  /\ code = 0
  /\ wev = WEv("none", 0, NoReason)

\* 40-42, 54-56, 67-69: the one retry, or process.exit(status); n timers
\* are pending when the handler runs
RetryOrExit(may, status, n) ==
  IF may
  THEN /\ hasRetried' = TRUE
       /\ wtimers' = n + 1
       /\ wphase' = "running"
       /\ code' = code
  ELSE /\ wphase' = "exited"
       /\ code' = status
       /\ wtimers' = n
       /\ hasRetried' = hasRetried

\* connect 16-75: createClient returns a client (listeners attached 29-61)
\* or throws (63-74)
Connect(thrown, n) ==
  /\ connects < MaxConnects
  /\ connects' = connects + 1
  /\ IF thrown
     THEN /\ RetryOrExit(MayRetry(hasRetried), 1, n)
          /\ clients' = clients
     ELSE /\ clients' = Append(clients, "connecting")
          /\ wtimers' = n
          /\ wphase' = "running"
          /\ UNCHANGED <<hasRetried, code>>

\* the module body: without its four arguments the process exits with 1
\* (9-12); else the first connect (78) and the signal handlers (81-88) in
\* one turn
InitialConnect(args, thrown) ==
  /\ wphase = "loading"
  /\ IF args
     THEN /\ wev' = WEv("connect", 0, NoReason)
          /\ Connect(thrown, wtimers)
     ELSE /\ wev' = WEv("usage", 0, NoReason)
          /\ wphase' = "exited"
          /\ code' = 1
          /\ UNCHANGED <<hasRetried, connects, wtimers, clients>>
  /\ UNCHANGED nonWorker

\* the timer of 42, 56 or 69 fires
RetryTimer(thrown) ==
  /\ wphase = "running"
  /\ wtimers > 0
  /\ wev' = WEv("timer", 0, NoReason)
  /\ Connect(thrown, wtimers - 1)
  /\ UNCHANGED nonWorker

\* 'spawn' 29-31
ClientSpawn(i) ==
  /\ wphase = "running"
  /\ i \in 1..Len(clients)
  /\ clients[i] = "connecting"
  /\ clients' = [clients EXCEPT ![i] = "spawned"]
  /\ wev' = WEv("spawn", i, NoReason)
  /\ UNCHANGED <<hasRetried, connects, wtimers, wphase, code>>
  /\ UNCHANGED nonWorker

\* 'disconnect' 33-48 on any client made so far
ClientDisconnect(i, reason) ==
  /\ wphase = "running"
  /\ i \in 1..Len(clients)
  /\ wev' = WEv("disconnect", i, reason)
  /\ RetryOrExit(IsKick(reason) /\ MayRetry(hasRetried), 0, wtimers)
  /\ clients' = [clients EXCEPT ![i] = "closed"]
  /\ connects' = connects
  /\ UNCHANGED nonWorker

\* 'error' 50-61 on any client made so far
ClientError(i) ==
  /\ wphase = "running"
  /\ i \in 1..Len(clients)
  /\ wev' = WEv("error", i, NoReason)
  /\ RetryOrExit(MayRetry(hasRetried), 1, wtimers)
  /\ clients' = [clients EXCEPT ![i] = "failed"]
  /\ connects' = connects
  /\ UNCHANGED nonWorker

\* SIGINT / SIGTERM 81-88
WorkerSignal(sig) ==
  /\ wphase = "running"
  /\ wev' = WEv(sig, 0, NoReason)
  /\ wphase' = "exited"
  /\ code' = 0
  /\ UNCHANGED <<hasRetried, connects, wtimers, clients>>
  /\ UNCHANGED nonWorker

WorkerNext ==
  \/ \E args \in BOOLEAN, thrown \in BOOLEAN : InitialConnect(args, thrown)
  \/ \E thrown \in BOOLEAN : RetryTimer(thrown)
  \/ \E i \in 1..MaxConnects : ClientSpawn(i)
  \/ \E i \in 1..MaxConnects, reason \in Reasons : ClientDisconnect(i, reason)
  \/ \E i \in 1..MaxConnects : ClientError(i)
  \/ \E sig \in {"SIGINT", "SIGTERM"} : WorkerSignal(sig)

\* ------------------------------------- Servers / Config helpers 218-300
\* Each helper takes its copy of the collection when it is called (readDb
\* 84 runs inside the call) and hands its result to writeDb only after the
\* awaits of find and readDb have settled.  Handlers started in the same
\* turn of the event loop (the updates of one getUpdates batch) take turns
\* at these awaits, so several helper calls can be between copy and write.
MaxCalls == 2        \* helper calls between their copy and their write

DocIds == {1, 2, 3}
DocUsers == {1, 2}
\* the ids updateOne is called with; 4 names no record
UpdateIds == {1, 2, 4}

Doc(id, u) ==
  [_id |-> id, userId |-> u, status |-> StatusStopped, autoRestart |-> FALSE]

\* the $set payloads of 472/507 (status) and 1710 (toggle on)
Payloads == {[status |-> StatusActive], [autoRestart |-> TRUE]}

\* the queries of 1740 and 1888: { _id, userId }
Queries == [_id : DocIds, userId : DocUsers]

UpdateCall(id, payload, snap) ==
  [op |-> "updateOne", id |-> id, payload |-> payload, snap |-> snap]

DeleteCall(query, snap) ==
  [op |-> "deleteOne", id |-> query._id, payload |-> query, snap |-> snap]

OEv(op, id, wrote, count) ==
  [op |-> op, id |-> id, wrote |-> wrote, count |-> count]

NoOEv == OEv("none", 0, FALSE, 0)

\* the channel names the admin adds and removes (971, 991); Absent is a
\* config without the key, which setupInitialConfig 355-369 replaces by
\* [] at boot
Channels == {1, 2, 3}
ConfigOps == {"$addToSet", "$pull"}
Absent == <<0>>

ModelInit ==
  /\ coll = <<Doc(1, 1), Doc(2, 1), Doc(3, 2)>>
  /\ calls = {}
  /\ conf = <<>>
  /\ oev = NoOEv

\* 222, 259: Object.keys(query).every(key => s[key] === query[key])
Matches(rec, query) == \A key \in DOMAIN query : rec[key] = query[key]

\* a filter that keeps everything
KeepAll(seq, query) == seq

\* 259: servers.filter(s => !matches(s))
DeleteFiltered(seq, query) == SelectSeq(seq, LAMBDA s : ~Matches(s, query))

\* a merge that replaces the record by the payload
MergeReplacing(rec, payload) == payload

\* 252: { ...servers[serverIndex], ...payload }
Spread(rec, payload) == Merge(rec, payload)

\* 248-252 on the copy
UpdateOneOn(snap, id, payload) ==
  LET i == FindIndex(snap, id, 1) IN
  IF i = 0 THEN snap ELSE [snap EXCEPT ![i] = Spread(snap[i], payload)]

\* the copy a resumed helper works on is the one it took when called
Snapshot(snap, current) == snap

\* Servers.updateOne 246-247: the call, up to the await of find
ServersUpdateOneCall(id, payload) ==
  /\ Cardinality(calls) < MaxCalls
  /\ calls' = calls \cup {UpdateCall(id, payload, coll)}
  /\ oev' = NoOEv
  /\ UNCHANGED <<coll, conf>>
  /\ UNCHANGED nonModel

\* Servers.updateOne 248-254: call c resumed with its copy
UpdateOneWrites(c) ==
  LET snap == Snapshot(c.snap, coll)
      found == FindIndex(snap, c.id, 1) # 0 IN
  /\ calls' = calls \ {c}
  /\ coll' = IF found THEN UpdateOneOn(snap, c.id, c.payload) ELSE coll
  /\ oev' = OEv("updateOne", c.id, found, 0)
  /\ conf' = conf
  /\ UNCHANGED nonModel

ServersUpdateOneResume(id) ==
  \E c \in calls : c.op = "updateOne" /\ c.id = id /\ UpdateOneWrites(c)

\* Servers.deleteOne 256-257: the call
ServersDeleteOneCall(query) ==
  /\ Cardinality(calls) < MaxCalls
  /\ calls' = calls \cup {DeleteCall(query, coll)}
  /\ oev' = NoOEv
  /\ UNCHANGED <<coll, conf>>
  /\ UNCHANGED nonModel

\* Servers.deleteOne 258-264: call c resumed with its copy
DeleteOneWrites(c) ==
  LET snap == Snapshot(c.snap, coll)
      kept == DeleteFiltered(snap, c.payload)
      fewer == Len(kept) < Len(snap) IN
  /\ calls' = calls \ {c}
  /\ coll' = IF fewer THEN kept ELSE coll
  /\ oev' = OEv("deleteOne", c.id, fewer, IF fewer THEN 1 ELSE 0)
  /\ conf' = conf
  /\ UNCHANGED nonModel

ServersDeleteOneResume(query) ==
  \E c \in calls :
    c.op = "deleteOne" /\ c.payload = query /\ DeleteOneWrites(c)

\* ------------------------------------------------- Config.updateOne 278-299
\* an add that pushes without looking
AddToSetBlind(arr, v) == IF arr = Absent THEN <<v>> ELSE Append(arr, v)

\* 283-288: $addToSet
AddToSet(arr, v) ==
  LET have == IF arr = Absent THEN <<>> ELSE arr IN
  IF v \in SeqToSet(have) THEN have ELSE Append(have, v)

\* 289-292: $pull
Pull(arr, v) ==
  IF arr = Absent THEN Absent ELSE SelectSeq(arr, LAMBDA item : item # v)

\* Config.updateOne 278-279 as called at 971 ($addToSet) and 991 ($pull):
\* the call and its readDb
ConfigCall(kind, v, snap) ==
  [op |-> kind, id |-> v, payload |-> v, snap |-> snap]

ConfigUpdateOneCall(kind, v) ==
  /\ Cardinality(calls) < MaxCalls
  /\ calls' = calls \cup {ConfigCall(kind, v, conf)}
  /\ oev' = NoOEv
  /\ UNCHANGED <<coll, conf>>
  /\ UNCHANGED nonModel

\* Config.updateOne 280-298: call c resumed with its copy; writeDb at 298
\* is reached on every path
ConfigUpdateOneWrites(c) ==
  LET snap == Snapshot(c.snap, conf) IN
  /\ calls' = calls \ {c}
  /\ conf' = IF c.op = "$addToSet" THEN AddToSet(snap, c.payload)
             ELSE Pull(snap, c.payload)
  /\ oev' = OEv(c.op, c.id, TRUE, 0)
  /\ coll' = coll
  /\ UNCHANGED nonModel

ConfigUpdateOneResume(kind, v) ==
  \E c \in calls : c.op = kind /\ c.id = v /\ ConfigUpdateOneWrites(c)

ModelNext ==
  \/ \E id \in UpdateIds, payload \in Payloads :
       ServersUpdateOneCall(id, payload)
  \/ \E id \in UpdateIds : ServersUpdateOneResume(id)

RemoveNext ==
  \/ \E query \in Queries : ServersDeleteOneCall(query)
  \/ \E query \in Queries : ServersDeleteOneResume(query)

ConfigNext ==
  \/ \E kind \in ConfigOps, v \in Channels : ConfigUpdateOneCall(kind, v)
  \/ \E kind \in ConfigOps, v \in Channels : ConfigUpdateOneResume(kind, v)

\* --------------------------------------------------- TTL cache 98-113
MaxNow == 2          \* seconds the clock runs
MaxTtl == 2          \* longest time to live, in seconds (300 and 3600 in the code)

Keys == {1, 2}
CacheValues == {"true", "false"}
NoEntry == [value |-> "", expiry |-> -1]
Null == "null"

CEv(op, key, out) == [op |-> op, key |-> key, out |-> out]

CacheInit ==
  /\ cache = [k \in Keys |-> NoEntry]
  /\ now = 0
  /\ cev = CEv("none", 0, Null)

\* a test that takes an entry at its expiry time for fresh
FreshInclusive(entry, t) == entry # NoEntry /\ entry.expiry >= t

\* 103: entry && entry.expiry > Date.now()
Fresh(entry, t) == entry # NoEntry /\ entry.expiry > t

\* getFromCache 101-108
GetFromCache(key) ==
  /\ IF Fresh(cache[key], now)
     THEN /\ cev' = CEv("get", key, cache[key].value)
          /\ cache' = cache
     ELSE /\ cev' = CEv("get", key, Null)
          /\ cache' = [cache EXCEPT ![key] = NoEntry]
  /\ now' = now
  /\ UNCHANGED nonCache

\* 111: Date.now() + ttl * 1000
Expiry(t, ttl) == t + ttl * 1000

\* setToCache 110-113
SetToCache(key, value, ttl) ==
  /\ cache' = [cache EXCEPT
                 ![key] = [value |-> value, expiry |-> Expiry(now, ttl)]]
  /\ cev' = CEv("set", key, Null)
  /\ now' = now
  /\ UNCHANGED nonCache

\* subscriptionCache.delete(ctx.from.id) 1539, 1567
CacheDelete(key) ==
  /\ cache' = [cache EXCEPT ![key] = NoEntry]
  /\ cev' = CEv("delete", key, Null)
  /\ now' = now
  /\ UNCHANGED nonCache

\* time passes: Date.now() counts milliseconds and is seen every half
\* second
ClockTick ==
  /\ now < MaxNow * 1000
  /\ now' = now + 500
  /\ cev' = CEv("tick", 0, Null)
  /\ cache' = cache
  /\ UNCHANGED nonCache

CacheNext ==
  \/ \E key \in Keys : GetFromCache(key)
  \/ \E key \in Keys, value \in CacheValues, ttl \in 1..MaxTtl :
       SetToCache(key, value, ttl)
  \/ \E key \in Keys : CacheDelete(key)
  \/ ClockTick

\* ------------------------------------------------------- specifications
\* what a boot may find on disk
DiskStates(f) == {OnDisk(Steady[f]), Missing, Corrupt, Unreadable}

BootInit ==
  /\ db = Empty
  /\ disk \in [Files -> UNION {DiskStates(f) : f \in Files}]
  /\ \A f \in Files : disk[f] \in DiskStates(f)
  /\ writeQueue = <<>>
  /\ writeTimeout = FALSE
  /\ timers = 0
  /\ flushes = EmptyBag
  /\ phase = "boot"
  /\ sev = NoSEv

\* the process up and idle: loadDb is done, nothing is dirty, no wizard open
Ready == Init /\ StoreIdle /\ HeapInit /\ RegInit /\ WorkerInit
           /\ ModelInit /\ CacheInit /\ deletes = {}

\* the process before loadDb, over what a boot may find on disk
Cold == Init /\ BootInit /\ HeapInit /\ RegInit /\ WorkerInit
           /\ ModelInit /\ CacheInit /\ deletes = {}

HeapSpec == Ready /\ [][HeapNext]_heapVars

RegSpec == Ready /\ [][RegNext]_regVars

\* one worker client from its start to its exit
WorkerSpec == Ready /\ [][WorkerNext]_workerVars

ModelSpec == Ready /\ [][ModelNext]_modelVars

RemoveSpec == Ready /\ [][RemoveNext]_modelVars

ConfigSpec == Ready /\ [][ConfigNext]_modelVars

CacheSpec == Ready /\ [][CacheNext]_cacheVars

StoreNext ==
  \/ \E p \in Protocols : VersionsCreateCall(p)
  \/ \E p \in Protocols : VersionsDeleteCall(p)
  \/ ToggleBotOnline
  \/ FlushTimer
  \/ \E x \in BagToSet(flushes), o \in WriteOutcomes : WriteFileDone(x, o)

\* the store of the running process after a boot that found every file
StoreSpec == Ready /\ [][StoreNext]_storeVars

\* the timer of 94 fires once its 3 seconds have passed, and every
\* fs.writeFile settles, with one outcome or the other
StoreFairness ==
  /\ WF_storeVars(FlushTimer)
  /\ WF_storeVars(\E x \in BagToSet(flushes), o \in WriteOutcomes :
                    WriteFileDone(x, o))

DurableSpec == Ready /\ [][StoreNext]_storeVars /\ StoreFairness

\* the store up to the end of the process, on a disk that takes every write
SoundDiskNext ==
  \/ \E p \in Protocols : VersionsCreateCall(p)
  \/ \E p \in Protocols : VersionsDeleteCall(p)
  \/ ToggleBotOnline
  \/ FlushTimer
  \/ \E x \in BagToSet(flushes) : WriteFileDone(x, "ok")
  \/ GracefulStop

SoundDiskSpec == Ready /\ [][SoundDiskNext]_storeVars

BootNext == \E mk \in BOOLEAN : LoadDb(mk)

BootSpec == Cold /\ [][BootNext]_storeVars

\* ====================================================================
\* Supervisor specification
\* ====================================================================
Next ==
  \/ \E id \in AnyId : UserStart(id)
  \/ \E x \in Invocations : StartEdited(x)
  \/ \E x \in Invocations, r \in Reported \cup {ProbeFail},
        o \in SpawnOutcomes : ProbeReturn(x, r, o)
  \/ \E x \in Invocations, o \in SpawnOutcomes : Spawn(x, o)
  \/ \E p \in Pids : ChildExit(p)
  \/ ChildError
  \/ \E id \in Ids : TimerFire(id)
  \/ \E id \in BedrockIds : StopBot(id)
  \/ \E id \in BedrockIds : ToggleAutoRestart(id)
  \/ \E p \in Protocols : AdminAddVersion(p)
  \/ \E p \in Protocols : AdminDeleteVersion(p)

Spec == Ready /\ [][Next]_vars

TypeOK ==
  /\ \A i \in 1..Len(servers) :
       /\ servers[i].status \in Statuses
       /\ servers[i].botPid \in Pids \cup {NoPid}
  /\ tick \in {0} \cup Ids
  /\ BagCardinality(starts) <= MaxStarts
  /\ \A i \in Ids : restarts[i] \in 0..MaxTimers

\* ------------------------------------------------------------- fairness
\* What the event loop guarantees: it does not stop while a timer is armed,
\* an awaited Telegram call or the statusBedrock probe (which has a timeout
\* of 8000 ms, 460) is outstanding or an 'error' event is queued; one of them
\* is delivered.  Which outcome a probe or a spawn has is left open.
\* an event loop whose probes may stay unanswered for ever (no timeout)
DeliveredUnlessProbe ==
  \/ \E id \in Ids : TimerFire(id)
  \/ \E x \in Invocations : StartEdited(x)
  \/ \E x \in Invocations, o \in SpawnOutcomes : Spawn(x, o)
  \/ ChildError

Delivered ==
  \/ \E id \in Ids : TimerFire(id)
  \/ \E x \in Invocations : StartEdited(x)
  \/ \E x \in Invocations, r \in Reported \cup {ProbeFail},
        o \in SpawnOutcomes : ProbeReturn(x, r, o)
  \/ \E x \in Invocations, o \in SpawnOutcomes : Spawn(x, o)
  \/ ChildError

Fairness == WF_vars(Delivered)

\* The restart chain with the owner's actions on the target around it; the
\* versions table stays as it is (a probe may still report a protocol that
\* is not in it) and no start is issued for the java or the missing target.
LiveNext ==
  \/ \E id \in BedrockIds : UserStart(id)
  \/ \E x \in Invocations : StartEdited(x)
  \/ \E x \in Invocations, r \in Reported \cup {ProbeFail},
        o \in SpawnOutcomes : ProbeReturn(x, r, o)
  \/ \E x \in Invocations, o \in SpawnOutcomes : Spawn(x, o)
  \/ \E p \in Pids : ChildExit(p)
  \/ ChildError
  \/ \E id \in Ids : TimerFire(id)
  \/ \E id \in BedrockIds : StopBot(id)
  \/ \E id \in BedrockIds : ToggleAutoRestart(id)

LiveSpec == Ready /\ [][LiveNext]_vars /\ Fairness

\* ---------------------------------------- both listeners of one child
\* A child whose end is reported on both listeners (497-500 and 502-505):
\* the 'exit' listener runs and the 'error' event of the same child is
\* emitted next, before any other event of the loop.
ChildExitWithError(p) ==
  /\ tick = 0
  /\ IsAlive(p)
  /\ procs' = [procs EXCEPT ![p].st = "gone"]
  /\ HandleBotExit(procs[p].id, "exit")
  /\ tick' = procs[p].id
  /\ UNCHANGED <<versions, starts>>
  /\ UNCHANGED nonSupervisor

\* the versions table is left as it is, as in LiveNext
NoticeNext ==
  \/ LiveNext
  \/ \E p \in Pids : ChildExitWithError(p)
  \/ \E id \in BedrockIds : ToggleNotify(id)

NoticeSpec == Ready /\ [][NoticeNext]_vars

\* ------------------------------------------------- delete_do 1740-1743
Requesters == {1, 2}

\* 1740: stopBot(ctx, sId) is called with the id of the callback data,
\* whoever pressed the button
StopsFor(srvs, u, id) == FindById(srvs, id) # <<>>

\* up to the first wait of stopBot (620): findById, process.kill, updateOne
DeleteDoStop(u, id) ==
  /\ tick = 0
  /\ <<u, id>> \notin deletes
  /\ deletes' = deletes \cup {<<u, id>>}
  /\ servers' = IF StopsFor(servers, u, id)
                THEN StopBotServers(servers, id) ELSE servers
  /\ ev' = [Ev("delete_do", id,
               IF ~StopsFor(servers, u, id) THEN "notfound"
               ELSE IF StopBotSignals(servers, id) # {} THEN "signalled"
               ELSE "stopped", FALSE)
              EXCEPT !.was = PreStatus(servers, id)]
  /\ UNCHANGED <<versions, starts, procs, restarts, tick>>
  /\ UNCHANGED nonVars

\* after the waits of stopBot (620-622): Servers.deleteOne({ _id, userId })
DeleteDoRemove(u, id) ==
  LET kept == DeleteFiltered(servers, [_id |-> id, userId |-> u]) IN
  /\ tick = 0
  /\ <<u, id>> \in deletes
  /\ deletes' = deletes \ {<<u, id>>}
  /\ servers' = kept
  /\ ev' = Ev("deleteOne", id,
              IF Len(kept) < Len(servers) THEN "1" ELSE "0", FALSE)
  /\ UNCHANGED <<versions, starts, procs, restarts, tick>>
  /\ UNCHANGED nonVars

DeleteNext ==
  \/ LiveNext
  \/ \E u \in Requesters, id \in BedrockIds : DeleteDoStop(u, id)
  \/ \E u \in Requesters, id \in BedrockIds : DeleteDoRemove(u, id)

deleteVars == <<vars, deletes>>

DeleteSpec == Ready /\ [][DeleteNext]_deleteVars

\* ------------------------------------------- records of an earlier run
\* The supervisor comes up over a servers.json written by an earlier run
\* (loadDb 24-50 takes the records as they are, nothing resets them at
\* 2017-2019): the bedrock target is recorded active with the pid of a
\* worker of that run, which no longer exists.
StaleInit ==
  /\ \E auto \in BOOLEAN :
       servers = <<Merge(NewServer(1, "bedrock"),
                         [status |-> StatusActive, botPid |-> 1,
                          autoRestart |-> auto]),
                   NewServer(2, "java")>>
  /\ versions = <<1>>
  /\ starts = EmptyBag
  /\ procs = [p \in Pids |-> IF p = 1 THEN [id |-> 1, st |-> "gone"]
                                       ELSE [id |-> 0, st |-> "unborn"]]
  /\ restarts = [i \in Ids |-> 0]
  /\ tick = 0
  /\ ev = NoEv

Stale == StaleInit /\ StoreIdle /\ HeapInit /\ RegInit /\ WorkerInit
           /\ ModelInit /\ CacheInit /\ deletes = {}

StaleSpec == Stale /\ [][LiveNext]_vars

\* ====================================================================
\* Claims
\* ====================================================================
Record(id) == FindById(servers, id)[1]

Exists(id) == FindById(servers, id) # <<>>

\* C1: for every target, at most one live worker process spawned by the
\* supervisor exists at any time.
C1_AtMostOneLiveWorker ==
  \A id \in Ids : Cardinality(LiveFor(id)) <= 1

\* C2: a start issued for a target while an earlier start on it has not yet
\* finished its discovery probe is rejected as already running; it puts no
\* second invocation in flight and spawns nothing.
C2_SecondStartRejected ==
  [][\A id \in Ids :
       (/\ ev'.op = "start"
        /\ ev'.id = id
        /\ \E x \in InFlight(id) : x.pc \in {"edit1", "probe"})
       => (ev'.out = "already" /\ starts' = starts /\ procs' = procs)]_vars

\* C3: a start is accepted only from the stopped or an error status; a start
\* issued while the status is searching, starting, or active with a live
\* process is rejected, changes no field of the record and spawns nothing.
InFlightStatus(id) ==
  \/ PreStatus(servers, id) \in {StatusSearching, StatusStarting}
  \/ /\ PreStatus(servers, id) = StatusActive
     /\ IsAlive(Record(id).botPid)

C3_StartOnlyFromIdleOrError ==
  [][\A id \in Ids :
       (ev'.op \in {"start", "restart"} /\ ev'.id = id)
       => /\ ev'.out = "accepted"
             => PreStatus(servers, id) \in
                  {StatusStopped, StatusUnsupported, StatusFailed}
          /\ InFlightStatus(id)
             => (ev'.out = "already" /\ servers' = servers
                 /\ starts' = starts /\ procs' = procs)]_vars

\* C4: once a stop has completed, the restart mechanism starts the target
\* no more, whether the worker's exit was handled before or after the stop.
C4_NoRestartAfterStop ==
  [][(ev.op = "stop" /\ ev.out # "notfound")
       => ~(ev'.op = "restart" /\ ev'.id = ev.id /\ ev'.out = "accepted")]_vars

\* C5: an exit notification handled while the stored status is not active
\* changes no record, sends no failure notification and arms no restart.
C5_IgnoredExitIsNoOp ==
  [][\A id \in Ids :
       (/\ ev'.op \in {"exit", "error"}
        /\ ev'.id = id
        /\ PreStatus(servers, id) # StatusActive)
       => (/\ servers' = servers
           /\ restarts' = restarts
           /\ starts' = starts
           /\ ~ev'.note)]_vars

\* an exit was ignored for a stopped target whose owner asked for
\* notifications
C5_Witness ==
  /\ ev.op = "exit"
  /\ ev.out = "ignored"
  /\ Exists(ev.id)
  /\ Record(ev.id).status = StatusStopped
  /\ Record(ev.id).notifyOnError

\* C6: after stopBot on an existing target, whatever its prior state, the
\* record has status stopped, botPid null and autoRestart false, and
\* applying stopBot again leaves the collection as it is.
C6_StopResult ==
  (ev.op = "stop" /\ ev.out # "notfound")
  => /\ Exists(ev.id)
     /\ Record(ev.id).status = StatusStopped
     /\ Record(ev.id).botPid = NoPid
     /\ ~Record(ev.id).autoRestart
     /\ StopBotServers(servers, ev.id) = servers

\* a stop has signalled the live worker of an active target
C6_Witness ==
  ev.op = "stop" /\ ev.out = "signalled" /\ ev.was = StatusActive

\* C7 as stated: stopping a target whose status is already stopped sends no
\* signal and changes no field of any record.
C7_StopIdleIsNoOp ==
  [][\A id \in Ids :
       (ev'.op = "stop" /\ ev'.id = id
        /\ PreStatus(servers, id) = StatusStopped)
       => (ev'.out = "stopped" /\ servers' = servers)]_vars

\* C7 amended: stopping a target whose status is already stopped sends no
\* signal and changes no field of any record except the target's
\* autoRestart, which becomes false.
C7_StopIdleClearsOnlyAutoRestart ==
  [][\A id \in Ids :
       (ev'.op = "stop" /\ ev'.id = id
        /\ PreStatus(servers, id) = StatusStopped)
       => (/\ ev'.out = "stopped"
           /\ servers' = UpdateOne(servers, id, [autoRestart |-> FALSE])
           /\ procs' = procs
           /\ starts' = starts
           /\ restarts' = restarts)]_vars

\* a stop ran on a target that was already stopped
C7_Witness ==
  ev.op = "stop" /\ ev.was = StatusStopped /\ ev.out = "stopped"

\* C8: a record carries a process id only while its status is starting or
\* active.
C8_PidOnlyWhenLaunchingOrRunning ==
  \A i \in 1..Len(servers) :
    servers[i].botPid # NoPid
    => servers[i].status \in {StatusStarting, StatusActive}

\* C9: when the probe of a start reports a protocol number that is not in
\* the versions table the start read, the target ends in the unsupported
\* status, the start is over and no process is spawned by it.
C9_UnsupportedVersionNoSpawn ==
  [][\A x \in BagToSet(starts), r \in Reported :
       (/\ ev'.op \in {"probe", "spawn"}
        /\ x.pc = "probe"
        /\ r \notin x.ver
        /\ \E o \in SpawnOutcomes : ProbeReturn(x, r, o))
       => (/\ Exists(x.id) => FindById(servers', x.id)[1].status
                                = StatusUnsupported
           /\ procs' = procs
           /\ tick' = 0
           /\ starts' = starts (-) SetToBag({x}))]_vars

\* a probe has just reported an unsupported version
C9_Witness ==
  /\ ev.op = "probe"
  /\ ev.out = "unsupported"
  /\ Exists(ev.id)
  /\ Record(ev.id).status = StatusUnsupported

\* C10: when spawning the worker fails, the target is in the failed status
\* with botPid null, not in the active status.
C10_SpawnFailureEndsInError ==
  (ev.op = "spawn" /\ ev.out \in {"throw", "async"} /\ Exists(ev.id))
  => (Record(ev.id).status = StatusFailed /\ Record(ev.id).botPid = NoPid)

\* C11: when the worker of an active target with autoRestart exits, the
\* handler sets the status to stopped and arms one restart timer without
\* putting a start in flight; a start by the supervisor itself happens only
\* when such a timer fires, and it is accepted unless a live worker is
\* recorded by then; and from the handled exit on, the target eventually is
\* active with a live (hence new) process id, unless a probe fails or
\* reports an unsupported version or a spawn fails in between.
ExitArmed(id) ==
  /\ ev.op = "exit"
  /\ ev.out = "handled"
  /\ ev.id = id
  /\ restarts[id] > 0

Running(id) ==
  /\ Exists(id)
  /\ Record(id).status = StatusActive
  /\ IsAlive(Record(id).botPid)

StartFailed(id) ==
  /\ ev.id = id
  /\ \/ ev.op = "probe" /\ ev.out \in {"probefail", "unsupported"}
     \/ ev.op = "spawn" /\ ev.out \in {"throw", "async"}

C11_ExitArmsOneTimer ==
  \A p \in Pids :
    (/\ ChildExit(p)
     /\ PreStatus(servers, procs[p].id) = StatusActive
     /\ Record(procs[p].id).autoRestart)
    => (/\ PreStatus(servers', procs[p].id) = StatusStopped
        /\ restarts' = [restarts EXCEPT ![procs[p].id] = @ + 1]
        /\ starts' = starts)

C11_StartsOnlyByUserOrTimer ==
  /\ BagCardinality(starts') > BagCardinality(starts)
       => ev'.op \in {"start", "restart"}
  /\ \A id \in Ids :
       (ev'.op = "restart" /\ ev'.id = id)
       => (/\ restarts' = [restarts EXCEPT ![id] = @ - 1]
           /\ ev'.out = "accepted"
                <=> ~(Record(id).serverType = "java"
                      \/ IsAlive(Record(id).botPid))
           /\ ev'.out = "accepted"
                => (/\ PreStatus(servers', id) = StatusSearching
                    /\ \E x \in InFlight(id)' : x.pc = "probe" /\ ~x.ctx))

C11_RestartAfterExit ==
  /\ [][C11_ExitArmsOneTimer]_vars
  /\ [][C11_StartsOnlyByUserOrTimer]_vars
  /\ \A id \in BedrockIds : ExitArmed(id) ~> (Running(id) \/ StartFailed(id))

\* the restart timer of a target whose worker exited has fired and the start
\* it issued was accepted
C11_Witness ==
  /\ ev.op = "restart"
  /\ ev.out = "accepted"
  /\ Record(ev.id).autoRestart
  /\ \E p \in Pids : procs[p].id = ev.id /\ procs[p].st = "gone"

\* C12: a start (by the owner or by a restart timer) on an id without a
\* record, on a java target, or on a target whose recorded process is alive
\* leaves the servers collection as it is, hands no file to writeDb (so no
\* flush is scheduled), spawns nothing and puts no invocation in flight.
C12_RejectedStartChangesNothing ==
  [][\A id \in AnyId :
       (/\ ev'.op \in {"start", "restart"}
        /\ ev'.id = id
        /\ \/ ~Exists(id)
           \/ Record(id).serverType = "java"
           \/ IsAlive(Record(id).botPid))
       => (/\ servers' = servers
           /\ StartBotWrites(servers, id) = {}
           /\ procs' = procs
           /\ starts' = starts
           /\ tick' = tick)]_vars

\* a start was rejected because the recorded worker is alive
C12_Witness ==
  /\ ev.op = "start"
  /\ ev.out = "already"
  /\ IsAlive(Record(ev.id).botPid)

\* C13: Versions.create with a protocol number that some record already has
\* fails with the duplicate-key error (code 11000) and leaves the versions
\* collection, every other collection, the dirty set and the flush timer as
\* they are; and no two version records ever share a protocol number.
NoDuplicates(seq) ==
  \A i, j \in 1..Len(seq) : i # j => seq[i] # seq[j]

C13_DuplicateRejected ==
  \A p \in Protocols :
    (p \in SeqToSet(db["versions.json"].items) /\ VersionsCreateCall(p))
    => (/\ sev'.out = "11000"
        /\ db' = db
        /\ writeQueue' = writeQueue
        /\ timers' = timers
        /\ writeTimeout' = writeTimeout)

C13_UniqueProtocols ==
  /\ [](NoDuplicates(db["versions.json"].items))
  /\ [][C13_DuplicateRejected]_storeVars

\* a create was refused for a protocol number that is in the collection
C13_Witness ==
  /\ sev.op = "create"
  /\ sev.out = "11000"
  /\ db["versions.json"].items # <<>>

\* C14: every writeDb leaves exactly one flush timer armed (it clears the
\* one it holds), marks its file dirty once and starts no flush, so at most
\* one timer is ever pending; when the timer fires, one flushDb invocation
\* takes every dirty file, each once, and leaves nothing dirty and no timer;
\* and each file is written with the collection as it is in memory when its
\* turn comes, which is what a successful write puts on disk.
IsWrite(e) ==
  \/ e.op = "write"
  \/ e.op = "create" /\ e.out = "created"
  \/ e.op = "delete" /\ e.out = "1"

C14_AtMostOneTimer ==
  /\ timers <= 1
  /\ writeTimeout <=> timers = 1
  /\ NoDuplicates(writeQueue)
  /\ \A x \in BagToSet(flushes) :
       /\ NoDuplicates(x.files)
       /\ Head(x.files) \in x.touched \/ x.data = db[Head(x.files)]

C14_WriteArmsOneTimer ==
  IsWrite(sev')
  => (/\ timers' = 1
      /\ writeTimeout'
      /\ writeQueue' = Enqueue(writeQueue, sev'.file)
      /\ BagCardinality(flushes') = BagCardinality(flushes))

C14_ExpiryTakesAll ==
  (FlushTimer /\ writeQueue # <<>>)
  => (/\ timers' = 0
      /\ writeQueue' = <<>>
      /\ flushes' = flushes (+) SetToBag({[files |-> writeQueue,
                                          data |-> db[Head(writeQueue)],
                                          touched |-> {}, by |-> "timer"]}))

C14_WritesLatest ==
  \A x \in BagToSet(flushes) :
    (sev'.out = "ok" /\ phase' # "exited" /\ WriteFileDone(x, "ok"))
    => (/\ disk'[Head(x.files)] = OnDisk(x.data)
        /\ Tail(x.files) # <<>>
             => \E y \in BagToSet(flushes') :
                  /\ y.files = Tail(x.files)
                  /\ y.data = db[Head(Tail(x.files))]
                  /\ y.by = x.by)

C14_OneFlushPerBurst ==
  /\ []C14_AtMostOneTimer
  /\ [][C14_WriteArmsOneTimer]_storeVars
  /\ [][C14_ExpiryTakesAll]_storeVars
  /\ [][C14_WritesLatest]_storeVars

\* the timer armed by writes to two collections has fired and one flushDb
\* invocation holds both files
C14_Witness ==
  /\ sev.op = "flush"
  /\ timers = 0
  /\ writeQueue = <<>>
  /\ \E x \in BagToSet(flushes) : Len(x.files) = 2 /\ x.by = "timer"

\* C15 as stated: a file whose write fails is dirty afterwards and the next
\* flushDb invocation takes it; the invocation goes on with the other files
\* of its list; and a file whose write succeeded is dirty afterwards only if
\* it was written in memory after the invocation took it.
Continues(x) ==
  Tail(x.files) # <<>>
  => \E y \in BagToSet(flushes') : y.files = Tail(x.files) /\ y.by = x.by

C15_FailureKeepsDirty ==
  \A x \in BagToSet(flushes) :
    (sev'.out = "fail" /\ phase' # "exited" /\ WriteFileDone(x, "fail"))
    => (/\ Head(x.files) \in SeqToSet(writeQueue')
        /\ disk' = disk
        /\ Continues(x))

C15_StartTakesAllDirty ==
  (sev'.op \in {"flush", "signal"} /\ writeQueue # <<>> /\ phase' # "exited")
  => (/\ writeQueue' = <<>>
      /\ \E y \in BagToSet(flushes') : y.files = writeQueue)

C15_SuccessCleanUnlessRewritten ==
  \A x \in BagToSet(flushes) :
    (sev'.out = "ok" /\ phase' # "exited" /\ WriteFileDone(x, "ok"))
    => (/\ Continues(x)
        /\ Head(x.files) \in SeqToSet(writeQueue')
             => Head(x.files) \in x.touched)

C15_FlushRetriesFailures ==
  /\ [][C15_FailureKeepsDirty]_storeVars
  /\ [][C15_StartTakesAllDirty]_storeVars
  /\ [][C15_SuccessCleanUnlessRewritten]_storeVars

\* C15 amended: a file whose write fails is dirty afterwards and the next
\* flushDb invocation takes it; the invocation goes on with the other files
\* of its list; a successful write leaves the dirty set as it is; and a file
\* becomes dirty only by a writeDb on it or by a failed write of it (which
\* may be the write of another flushDb invocation under way).
C15_SuccessLeavesDirtySet ==
  \A x \in BagToSet(flushes) :
    (sev'.out = "ok" /\ phase' # "exited" /\ WriteFileDone(x, "ok"))
    => (Continues(x) /\ writeQueue' = writeQueue)

C15_DirtyOnlyByWriteOrFailure ==
  \A f \in Files :
    (f \in SeqToSet(writeQueue') /\ f \notin SeqToSet(writeQueue))
    => /\ sev'.file = f
       /\ IsWrite(sev') \/ (sev'.op = "written" /\ sev'.out = "fail")

C15_FlushRetriesFailuresAmended ==
  /\ [][C15_FailureKeepsDirty]_storeVars
  /\ [][C15_StartTakesAllDirty]_storeVars
  /\ [][C15_SuccessLeavesDirtySet]_storeVars
  /\ [][C15_DirtyOnlyByWriteOrFailure]_storeVars

\* a write has failed, its file is dirty again and the invocation goes on
\* with the next file of its list
C15_Witness ==
  /\ sev.op = "written"
  /\ sev.out = "fail"
  /\ sev.file \in SeqToSet(writeQueue)
  /\ \E x \in BagToSet(flushes) :
       Len(x.files) = 1 /\ Head(x.files) # sev.file /\ x.touched = {}

\* C16: on a disk that takes every write, once the process has exited after
\* SIGINT / SIGTERM every backing file holds its collection's latest
\* in-memory state, also when a timer-driven flush was under way at the
\* signal.
C16_ShutdownPersistsAll ==
  phase = "exited" => \A f \in Files : disk[f] = OnDisk(db[f])

\* C18: loadDb ends the process exactly when the data directory cannot be
\* made or some backing file cannot be read for a reason other than being
\* absent or not being JSON; otherwise the process is up and each collection
\* holds what its file holds, or its default ([] or {}) when its own file is
\* absent or not JSON.
Loaded(ds, file) ==
  IF ds.st \in {"missing", "corrupt"} THEN DefaultValue(file) ELSE ds.data

C18_MissingOrCorruptGivesDefault ==
  [][\A mk \in BOOLEAN :
       LoadDb(mk)
       => /\ phase' = "exited"
             <=> (~mk \/ \E f \in Files : disk[f].st = "unreadable")
          /\ phase' = "up"
             => \A f \in Files : db'[f] = Loaded(disk[f], f)]_storeVars

\* a boot that found users.json absent and versions.json not JSON is up with
\* the stored config and the defaults for those two
C18_Witness ==
  /\ sev.op = "load"
  /\ phase = "up"
  /\ disk["users.json"].st = "missing"
  /\ disk["versions.json"].st = "corrupt"
  /\ disk["config.json"].st = "ok"
  /\ db["config.json"] = Steady["config.json"]
  /\ db["users.json"] = Arr(<<>>)
  /\ db["versions.json"] = Arr(<<>>)

\* C17: the array readDb returns and its records are objects of their own;
\* as long as that array has not been handed to writeDb, assigning to its
\* records or pushing onto it changes neither what later reads of the
\* collection give nor whether the collection is dirty.
C17_CopyIsApart ==
  \A h \in handles \ {dbRef} : Tree(cells, h) \cap Tree(cells, dbRef) = {}

C17_MutationStaysLocal ==
  \A h \in handles \ {dbRef} :
    (hev'.op \in {"mutate", "push"} /\ hev'.h = h)
    => (/\ Value(cells', dbRef') = Value(cells, dbRef)
        /\ dbRef' = dbRef
        /\ dirty' = dirty)

C17_ReadDbReturnsCopy ==
  /\ []C17_CopyIsApart
  /\ [][C17_MutationStaysLocal]_heapVars

\* a caller has changed a record of an array readDb gave it while the
\* collection is clean, and the two now differ
C17_Witness ==
  /\ hev.op = "mutate"
  /\ hev.h \in handles \ {dbRef}
  /\ ~dirty
  /\ Value(cells, hev.h) # Value(cells, dbRef)

\* C19: when a creation by the wizard or a deletion by delete_do has run to
\* its end (reorderServers included), the owner's targets carry the names
\* S-1..S-n in the order they were created; creating three and deleting the
\* second leaves S-1 and S-2.
Compact(srvs, u) ==
  \A i \in 1..Len(Mine(srvs, u)) :
    /\ Mine(srvs, u)[i].serverName = i
    /\ \A j \in 1..Len(Mine(srvs, u)) :
         i < j => Mine(srvs, u)[i].id < Mine(srvs, u)[j].id

C19_NamesCompactAfterChange ==
  (\/ rev.op = "port" /\ rev.out = "created"
   \/ rev.op = "delete")
  => Compact(reg, rev.user)

\* an owner has made three targets and deleted the second: the first and
\* the third are left, named S-1 and S-2
C19_Witness ==
  /\ rev = REv("delete", 1, 0, "1")
  /\ nextId = 3
  /\ Len(reg) = 2
  /\ Len(Mine(reg, 1)) = 2
  /\ Mine(reg, 1)[1].id = 1 /\ Mine(reg, 1)[1].serverName = 1
  /\ Mine(reg, 1)[2].id = 3 /\ Mine(reg, 1)[2].serverName = 2

\* C20: no two target records have the same ip and port, and a port step
\* whose ip and port are those of an existing record, of the same or of
\* another user, leaves the servers collection as it is.
C20_NoSharedEndpoint ==
  \A i, j \in 1..Len(reg) :
    (reg[i].ip = reg[j].ip /\ reg[i].port = reg[j].port) => i = j

C20_DuplicateCreatesNothing ==
  \A u \in Owners, p \in ValidPorts :
    (/\ rev'.op = "port"
     /\ \E i \in 1..Len(reg) : reg[i].ip = wiz[u].ip /\ reg[i].port = p
     /\ \E more \in BOOLEAN : WizardPort(u, p, more))
    => (reg' = reg /\ nextId' = nextId)

C20_EndpointRegisteredOnce ==
  /\ []C20_NoSharedEndpoint
  /\ [][C20_DuplicateCreatesNothing]_regVars

\* a port step was turned down because another user has the endpoint
C20_Witness ==
  /\ rev.op = "port"
  /\ rev.out = "other"
  /\ reg # <<>>
  /\ \E i \in 1..Len(reg) : reg[i].userId # rev.user

\* C21: no owner has more than three target records, and a port step of an
\* owner who has three creates nothing, also when it is one of several
\* messages of that owner handled in turn on one wizard step.
C21_AtMostThree ==
  \A u \in Owners : Len(Mine(reg, u)) <= 3

C21_FullOwnerCreatesNothing ==
  \A u \in Owners, p \in PortInputs :
    (/\ Len(Mine(reg, u)) >= 3
     /\ \E more \in BOOLEAN : WizardPort(u, p, more))
    => (reg' = reg /\ nextId' = nextId)

C21_PerOwnerCap ==
  /\ []C21_AtMostThree
  /\ [][C21_FullOwnerCreatesNothing]_regVars

\* a port step of an owner with three targets was turned down; the wizard
\* was entered with fewer, so another message of the step made the third
C21_Witness ==
  /\ rev.op = "port"
  /\ rev.out = "limit"
  /\ Len(Mine(reg, rev.user)) = 3

\* C22: one worker client process calls connect() at most twice, and a
\* retry timer is armed at most once, whatever disconnect, error and
\* createClient failures occur on the clients it has made.
C22_TwoConnects == connects <= 2

C22_OneRetry ==
  /\ wtimers <= 1
  /\ wtimers' > wtimers => ~hasRetried

C22_ConnectAtMostTwice ==
  /\ []C22_TwoConnects
  /\ [][C22_OneRetry]_workerVars

\* the retry has been made and failed: the second createClient threw after
\* an error on the first client
C22_Witness ==
  /\ connects = 2
  /\ wev.op = "timer"
  /\ wphase = "exited"
  /\ code = 1
  /\ Len(clients) = 1
  /\ clients[1] = "failed"

\* C23: a disconnect arms the retry exactly when its reason names a kick or
\* ban and the retry is unused, and any other disconnect exits with status
\* 0; an error with the retry used exits with a non-zero status; SIGINT and
\* SIGTERM exit with status 0 from every state of the running process,
\* also with the retry timer pending.
Kicked(reason) == reason.words \cap {"kick", "ban"} # {}

C23_Disconnect ==
  wev'.op = "disconnect"
  => IF Kicked(wev'.reason) /\ ~hasRetried
     THEN /\ wphase' = "running"
          /\ hasRetried'
          /\ wtimers' = wtimers + 1
          /\ connects' = connects
     ELSE /\ wphase' = "exited"
          /\ code' = 0
          /\ wtimers' = wtimers

C23_Error ==
  (wev'.op = "error" /\ hasRetried)
  => (wphase' = "exited" /\ code' # 0)

C23_Signal ==
  /\ wphase = "running" => \A sig \in {"SIGINT", "SIGTERM"} :
                              ENABLED WorkerSignal(sig)
  /\ wev'.op \in {"SIGINT", "SIGTERM"} => (wphase' = "exited" /\ code' = 0)

C24_ResumedStartYields ==
  (/\ ev.op = "stop"
   /\ ev.out # "notfound"
   /\ ev'.op \in {"probe", "spawn"}
   /\ ev'.id = ev.id)
  => /\ procs' = procs
     /\ PreStatus(servers', ev.id) \notin {StatusStarting, StatusActive}

C24_StopWinsOverStart == [][C24_ResumedStartYields]_vars

\* C25: the status of a target is always one of the known values, and every
\* step that changes it takes an edge of the specified machine: stopped or
\* an error status to searching, searching to starting or to an error
\* status, starting to active or to an error status, active to stopped (on
\* exit, or on stop with the stopping status passed within the step), and
\* stopped to starting only in a start made by the restart timer.  A step
\* that writes starting and then active or an error status takes two edges.
C25_Errors == {StatusUnsupported, StatusFailed}

C25_Edges ==
  ({StatusStopped} \cup C25_Errors) \X {StatusSearching}
    \cup {StatusSearching} \X ({StatusStarting} \cup C25_Errors)
    \cup {StatusStarting} \X ({StatusActive} \cup C25_Errors)
    \cup {<<StatusActive, StatusStopped>>}
    \cup {<<StatusSearching, StatusActive>>}

C25_StatusKnown == \A i \in 1..Len(servers) : servers[i].status \in Statuses

C25_EdgeTaken ==
  \A id \in Ids :
    PreStatus(servers', id) # PreStatus(servers, id)
    => \/ <<PreStatus(servers, id), PreStatus(servers', id)>> \in C25_Edges
       \/ /\ PreStatus(servers, id) = StatusStopped
          /\ PreStatus(servers', id) = StatusStarting
          /\ ev'.op = "restart"

C25_StateMachine == []C25_StatusKnown /\ [][C25_EdgeTaken]_vars

\* C26: when a worker process exits that is not the one recorded for its
\* target, the handling of the exit changes no record, sends no failure
\* notification and arms no restart timer.
C26_ForeignExit(p) ==
  /\ IsAlive(p)
  /\ procs'[p].st = "gone"
  /\ FindById(servers, procs[p].id) # <<>>
  /\ FindById(servers, procs[p].id)[1].botPid # p

C26_ForeignExitChangesNothing ==
  \A p \in Pids :
    (ev'.op = "exit" /\ C26_ForeignExit(p))
    => /\ servers' = servers
       /\ ~ev'.note
       /\ restarts' = restarts

C26_StaleExitIgnored == [][C26_ForeignExitChangesNothing]_vars

\* C27: when the end of one worker process is reported on both listeners,
\* the second report is ignored: it changes no record, sends no failure
\* notification and arms no restart timer, so the termination is handled
\* at most once.
C27_SecondReport ==
  /\ ev.op = "exit"
  /\ tick # 0
  /\ ev'.op = "error"

C27_SecondReportIgnored ==
  C27_SecondReport
  => /\ ev'.out = "ignored"
     /\ ~ev'.note
     /\ servers' = servers
     /\ restarts' = restarts

C28_HandledWithoutRestart ==
  (/\ ev'.op \in {"exit", "error"}
   /\ ExitHandled(servers, ev'.id)
   /\ ~Record(ev'.id).autoRestart)
  => /\ FindById(servers', ev'.id)[1].status = StatusStopped
     /\ FindById(servers', ev'.id)[1].botPid = NoPid
     /\ ev'.note <=> Record(ev'.id).notifyOnError
     /\ restarts' = restarts

C28_ExitWithoutAutoRestart == [][C28_HandledWithoutRestart]_vars

\* an exit has been handled silently: notifyOnError and autoRestart are off
C28_Witness ==
  /\ ev.op = "exit"
  /\ ev.out = "handled"
  /\ ~ev.note
  /\ Record(ev.id).status = StatusStopped
  /\ Record(ev.id).botPid = NoPid
  /\ ~Record(ev.id).notifyOnError
  /\ ~Record(ev.id).autoRestart
  /\ restarts[ev.id] = 0

\* C29 (as stated): a start on a target recorded active with a process id
\* that no longer exists is accepted, and the step leaves the record with
\* status searching and the process id cleared.
C29_StaleRecord(id) ==
  /\ Exists(id)
  /\ Record(id).status = StatusActive
  /\ Record(id).botPid # NoPid
  /\ ~IsAlive(Record(id).botPid)

C29_StaleStartClears ==
  (ev'.op \in {"start", "restart"} /\ C29_StaleRecord(ev'.id))
  => /\ ev'.out = "accepted"
     /\ FindById(servers', ev'.id)[1].status = StatusSearching
     /\ FindById(servers', ev'.id)[1].botPid = NoPid

C29_StaleStartKeepsPid ==
  (ev'.op \in {"start", "restart"} /\ C29_StaleRecord(ev'.id))
  => /\ ev'.out = "accepted"
     /\ servers' = UpdateOne(servers, ev'.id, [status |-> StatusSearching])
     /\ FindById(servers', ev'.id)[1].botPid = Record(ev'.id).botPid

C30_Unsettled(id) ==
  Exists(id) /\ Record(id).status \in {StatusSearching, StatusStarting}

C30_Settled(id) ==
  /\ Exists(id)
  /\ Record(id).status \in
       {StatusActive, StatusFailed, StatusUnsupported, StatusStopped}

C31_OtherRecordsKept ==
  (oev'.op = "updateOne" /\ oev'.wrote)
  => \A id \in UpdateIds :
       id # oev'.id => FindById(coll', id) = FindById(coll, id)

C31_NoLostUpdate == [][C31_OtherRecordsKept]_modelVars

\* C32: no worker process is created for a target that has no record: a
\* start in flight when the target is deleted, and a restart timer pending
\* then, spawn nothing.
C32_SpawnsOnlyForRecords ==
  \A p \in Pids :
    (procs[p].st = "unborn" /\ procs'[p].st = "alive")
    => FindById(servers, procs'[p].id) # <<>>

C32_NoWorkerAfterDelete == [][C32_SpawnsOnlyForRecords]_deleteVars

\* C38: a delete request of a user who does not own the target changes
\* nothing of it: neither half of the handler changes the servers
\* collection, and no signal is sent to the target's worker.
C38_NotOwner(u, id) == Exists(id) /\ Record(id).userId # u

C38_ForeignDeleteStops ==
  \A u \in Requesters, id \in BedrockIds :
    (/\ ev'.op = "delete_do"
     /\ <<u, id>> \in deletes' \ deletes
     /\ C38_NotOwner(u, id))
    => /\ servers' = servers
       /\ ev'.out # "signalled"

C38_ForeignDeleteRemoves ==
  \A u \in Requesters, id \in BedrockIds :
    (/\ ev'.op = "deleteOne"
     /\ <<u, id>> \in deletes \ deletes'
     /\ C38_NotOwner(u, id))
    => servers' = servers

C38_ForeignDeleteHasNoEffect ==
  /\ [][C38_ForeignDeleteStops]_deleteVars
  /\ [][C38_ForeignDeleteRemoves]_deleteVars

\* C33: whenever a target's status is active, its botPid is the pid of a
\* process the supervisor created for that target.
C33_ActiveHasProcess ==
  \A i \in 1..Len(servers) :
    servers[i].status = StatusActive
    => /\ servers[i].botPid \in Pids
       /\ procs[servers[i].botPid].st # "unborn"
       /\ procs[servers[i].botPid].id = servers[i]._id

\* C34: once no write fails any more and the collections are no longer
\* modified, every collection ends up on disk with its in-memory state
\* and stays so: no dirty collection is left unwritten, whether an
\* earlier flush failed or the collection was modified during a flush.
C34_Settled == \A f \in Files : disk[f] = OnDisk(db[f])

C34_Quiet == sev'.out # "fail" /\ db' = db

C34_EventuallyDurable == (<>[][C34_Quiet]_storeVars) => <>[]C34_Settled

\* the effect Servers.updateOne is said to have, measured against base
C35_Frame(base, c) ==
  LET i == FindIndex(base, c.id, 1) IN
  IF i = 0
  THEN coll' = coll /\ ~oev'.wrote
  ELSE /\ oev'.wrote
       /\ Len(coll') = Len(base)
       /\ \A j \in 1..Len(base) : j # i => coll'[j] = base[j]
       /\ DOMAIN coll'[i] = DOMAIN base[i] \cup DOMAIN c.payload
       /\ \A f \in DOMAIN base[i] \ DOMAIN c.payload : coll'[i][f] = base[i][f]
       /\ \A f \in DOMAIN c.payload : coll'[i][f] = c.payload[f]

\* C35 (as stated): Servers.updateOne changes, in the collection as it is
\* when the write happens, only the payload fields of the one record with
\* the id; without such a record nothing changes and nothing is written.
C35_UpdateAgainstCurrent ==
  \A c \in calls :
    (oev'.op = "updateOne" /\ calls' = calls \ {c}) => C35_Frame(coll, c)

C35_UpdateAgainstRead ==
  \A c \in calls :
    (oev'.op = "updateOne" /\ calls' = calls \ {c}) => C35_Frame(c.snap, c)

C37_Frame(base, c) ==
  IF \E i \in 1..Len(base) : Matches(base[i], c.payload)
  THEN /\ oev'.count = 1
       /\ oev'.wrote
       /\ \E i \in 1..Len(base) :
            /\ Matches(base[i], c.payload)
            /\ coll' = SubSeq(base, 1, i - 1) \o SubSeq(base, i + 1, Len(base))
  ELSE /\ oev'.count = 0
       /\ ~oev'.wrote
       /\ coll' = coll

\* C37 (as stated): deleteOne reports 1 exactly when a record of the
\* collection, as it is when the write happens, matches every field of
\* the query; then that one record is removed and the others are kept in
\* order; otherwise it reports 0, changes nothing and writes nothing.
C37_DeleteAgainstCurrent ==
  \A c \in calls :
    (oev'.op = "deleteOne" /\ calls' = calls \ {c}) => C37_Frame(coll, c)

C37_DeleteAgainstRead ==
  \A c \in calls :
    (oev'.op = "deleteOne" /\ calls' = calls \ {c}) => C37_Frame(c.snap, c)

C36_NoDup(arr) == \A i, j \in 1..Len(arr) : arr[i] = arr[j] => i = j

C36_Pos(arr, v) == CHOOSE i \in 1..Len(arr) : arr[i] = v

\* the array after $addToSet of v on the array a
C36_Added(a, v, after) ==
  /\ C36_NoDup(after)
  /\ v \in SeqToSet(a) => after = a
  /\ v \notin SeqToSet(a) => after = Append(a, v)
  /\ AddToSet(after, v) = after

\* the array after $pull of v on the array a
C36_Pulled(a, v, after) ==
  /\ v \notin SeqToSet(after)
  /\ C36_NoDup(after)
  /\ SeqToSet(after) = SeqToSet(a) \ {v}
  /\ \A x, y \in SeqToSet(after) :
       C36_Pos(after, x) < C36_Pos(after, y) <=> C36_Pos(a, x) < C36_Pos(a, y)

C36_Step ==
  \A c \in calls :
    (oev'.op \in ConfigOps /\ calls' = calls \ {c})
    => IF c.op = "$addToSet" THEN C36_Added(c.snap, c.payload, conf')
       ELSE C36_Pulled(c.snap, c.payload, conf')

C36_RoundTrip ==
  \A v \in Channels :
    v \notin SeqToSet(conf) => Pull(AddToSet(conf, v), v) = conf

\* C36: $addToSet leaves an array that has the value unchanged and appends
\* an absent value once, so the array never holds a value twice; $pull
\* leaves the array without the value and the other elements in their
\* order; $addToSet followed by $pull of a value the array did not hold
\* gives the array back.
C36_ArrayUpdates ==
  /\ [](C36_NoDup(conf) /\ C36_RoundTrip)
  /\ [][C36_Step]_modelVars

\* the middle one of three channels has been pulled
C36_Witness ==
  /\ oev.op = "$pull"
  /\ oev.id = 2
  /\ conf = <<1, 3>>
  /\ \E c \in calls : c.snap = <<1, 2, 3>>

\* C39: getFromCache returns the stored value, and leaves the cache as it
\* is, only for an entry whose expiry lies after the current time; for an
\* entry at or past its expiry and for a missing key it returns null and
\* the key is absent afterwards.
C39_Get ==
  cev'.op = "get"
  => LET entry == cache[cev'.key] IN
     IF entry # NoEntry /\ entry.expiry > now
     THEN cev'.out = entry.value /\ cache' = cache
     ELSE /\ cev'.out = Null
          /\ cache'[cev'.key] = NoEntry
          /\ \A k \in Keys \ {cev'.key} : cache'[k] = cache[k]

C39_NoExpiredValue == [][C39_Get]_cacheVars

\* a get at the very millisecond of the expiry has returned null and the
\* entry is gone, while the other key still holds its entry
C39_Witness ==
  /\ cev.op = "get"
  /\ cev.out = Null
  /\ now = 1000
  /\ cache[cev.key] = NoEntry
  /\ \E k \in Keys : cache[k] # NoEntry /\ cache[k].expiry = 1000

====
